---- MODULE Spec2Model ----
(***************************************************************************)
(* RAID simulator (raid-simulator/internal/raid, internal/rsutil).         *)
(*                                                                         *)
(* One controller of one RAID level owns a list of in-memory disks.  A     *)
(* disk is a list of chunks, a chunk is stripeSz bytes.  The operations    *)
(* are Write(data, offset), Read(start, length) and ClearDisk(index).      *)
(*                                                                         *)
(* Go indices are 0-based: disks is a function on 0..n-1, the chunk with   *)
(* Go index c of a disk is element c+1 of its sequence, and byte b of a    *)
(* chunk or of a data slice is element b+1.                                *)
(***************************************************************************)
EXTENDS Integers, Sequences, FiniteSets, TLC

\* ---------------------------------------------------------------------
\* Bounds of the model
\* ---------------------------------------------------------------------
MaxStripeSz == 2
MaxLen == 3
MaxOff == 2
MaxWrites == 2
\* largest member count handed to a constructor
MaxDiskCount == 6
\* members cleared in a run that follows the copy loops step by step
MaxClearedDisks == 2

\* ---------------------------------------------------------------------
\* Array shapes used by RunRAIDSimulation
\* ---------------------------------------------------------------------
RAID0Disks == 3
RAID1Disks == 2
RAID10Disks == 4
RAID5Disks == 3
RAID6Disks == 4

\* ---------------------------------------------------------------------
\* Bytes.  A byte is modelled with three bits; XOR is bitwise, and the
\* Reed-Solomon field is GF(2^3) with modulus x^3 + x + 1.
\* ---------------------------------------------------------------------
Byte == 0..7

Xor(a, b) ==
    (IF (a % 2) # (b % 2) THEN 1 ELSE 0)
  + (IF ((a \div 2) % 2) # ((b \div 2) % 2) THEN 2 ELSE 0)
  + (IF ((a \div 4) % 2) # ((b \div 4) % 2) THEN 4 ELSE 0)

XorTab == [a \in Byte |-> [b \in Byte |-> Xor(a, b)]]

\* Go's integer division and remainder truncate toward zero.
GoDiv(a, b) == IF a >= 0 THEN a \div b ELSE -((-a) \div b)
GoMod(a, b) == a - b * GoDiv(a, b)

Min(a, b) == IF a < b THEN a ELSE b
Max(a, b) == IF a > b THEN a ELSE b

\* a zero-filled chunk one byte longer than a stripe unit
ZeroChunkLong(sz) == [j \in 1..(sz + 1) |-> 0]

\* make([]byte, stripeSz)
ZeroChunk(sz) == [j \in 1..sz |-> 0]

XorChunk(a, b) == [j \in 1..Len(a) |-> XorTab[a[j]][b[j]]]

\* XOR of the chunks cs[d] for d in S (a set of indices), onto a zero chunk
RECURSIVE XorAll(_, _, _)
XorAll(cs, S, sz) ==
    IF S = {} THEN ZeroChunk(sz)
    ELSE LET d == CHOOSE x \in S : TRUE
         IN XorChunk(cs[d], XorAll(cs, S \ {d}, sz))

\* copy(dst[at:at+n], src[from:from+n]) on a chunk (0-based at, from)
CopyInto(dst, at, src, from, n) ==
    [j \in 1..Len(dst) |->
        IF j - 1 >= at /\ j - 1 < at + n THEN src[from + (j - 1 - at) + 1]
        ELSE dst[j]]

\* data[from:to] (0-based, to exclusive)
Slice(s, from, to) == SubSeq(s, from + 1, to)

\* The byte strings a caller writes: the k-th Write of a run carries the
\* first n bytes of pattern k.  All bytes are non-zero, the bytes of one
\* pattern differ by position, and two patterns differ at every position.
Pattern(k, n) == [j \in 1..n |-> ((j + 3 * k - 4) % 7) + 1]

\* ---------------------------------------------------------------------
\* State
\* ---------------------------------------------------------------------
VARIABLES
    level,      \* which controller was constructed
    stripeSz,   \* the controller's stripeSz (bytes per chunk)
    disks,      \* disks[d]: the chunk list (Disk.Data) of member d
    crashed,    \* the process ended in a runtime panic
    last,       \* the call under observation and what it returned, once
                \* issued: the caller's Read, or a Write or ClearDisk whose
                \* effect on the chunk lists is examined
    writes,     \* every Write issued so far, in order
    cleared,    \* members on which ClearDisk has succeeded
    wac,        \* a Write was issued after some ClearDisk
    rsEncoded,  \* rsutil: the shards EncodeStripeShards made of a stripe
    rsShards,   \* rsutil: the shard array handed to ReconstructStripeShards
    loop        \* the Write or Read whose byte-copy loop is running, with
                \* the loop's local variables

vars == <<level, stripeSz, disks, crashed, last, writes, cleared, wac, rsEncoded, rsShards, loop>>

NumDisksOf(l) ==
    CASE l = "raid0" -> RAID0Disks
      [] l = "raid1" -> RAID1Disks
      [] l = "raid10" -> RAID10Disks
      [] l = "raid5" -> RAID5Disks
      [] l = "raid6" -> RAID6Disks

\* start, length, out: a Read; data, offset: a Write; index: a ClearDisk;
\* before: the chunk lists when the Write or ClearDisk was issued;
\* diskCount, stripeSize: a constructor call; again: what the same call
\* returned when it was issued once more
NotRepeated == [outcome |-> "none", out |-> <<>>]
NoCall == [op |-> "none", start |-> 0, length |-> 0, outcome |-> "ok", out |-> <<>>, data |-> <<>>, offset |-> 0, index |-> 0, before |-> <<>>, diskCount |-> 0, stripeSize |-> 0, again |-> NotRepeated]

\* no call is inside a byte-copy loop. While one is: data, the bytes of a
\* Write; start, length, the arguments of a Read; cur, the current logical
\* offset; idx, dataToWriteIndex; end, endLogicalOffset; result, the bytes a
\* Read has gathered; before, the chunk lists the call found
NoLoop == [call |-> "none", data |-> <<>>, start |-> 0, length |-> 0, cur |-> 0, idx |-> 0, end |-> 0, result |-> <<>>, before |-> <<>>]

\* New<Level>Controller(diskCount, stripeSz) with valid arguments: every
\* member starts with an empty chunk list.
InitLevel(l) ==
    /\ level = l
    /\ stripeSz \in 1..MaxStripeSz
    /\ disks = [d \in 0..(NumDisksOf(l) - 1) |-> <<>>]
    /\ crashed = FALSE
    /\ last = NoCall
    /\ writes = <<>>
    /\ cleared = {}
    /\ wac = FALSE
    /\ rsEncoded = <<>>
    /\ rsShards = <<>>
    /\ loop = NoLoop

\* ---------------------------------------------------------------------
\* RAID5 (raid5.go): striping with one XOR parity chunk per stripe
\* ---------------------------------------------------------------------
RAID5DiskSet == 0..(RAID5Disks - 1)
RAID5BytesPerFullStripe(sz) == sz * (RAID5Disks - 1)

\* RAID5Controller.Write, body of the full-stripe loop for iteration i:
\* the parity member is i % numDisks, every member gets one chunk appended.
RAID5WriteStripe(ds, sz, stripeData, i) ==
    LET parityDiskIdx == i % RAID5Disks
        dataChunkIndexInStripe(d) == IF d < parityDiskIdx THEN d ELSE d - 1
        chunksForThisStripe ==
            [d \in RAID5DiskSet |->
                IF d = parityDiskIdx THEN ZeroChunk(sz)
                ELSE Slice(stripeData, dataChunkIndexInStripe(d) * sz,
                           dataChunkIndexInStripe(d) * sz + sz)]
        parityChunk ==
            XorAll(chunksForThisStripe, RAID5DiskSet \ {parityDiskIdx}, sz)
    IN [d \in RAID5DiskSet |->
           Append(ds[d], IF d = parityDiskIdx THEN parityChunk
                         ELSE chunksForThisStripe[d])]

RECURSIVE RAID5WriteFullStripes(_, _, _, _, _)
RAID5WriteFullStripes(ds, sz, data, i, fullStripesCount) ==
    IF i >= fullStripesCount THEN ds
    ELSE RAID5WriteFullStripes(
             RAID5WriteStripe(ds, sz,
                 Slice(data, i * RAID5BytesPerFullStripe(sz),
                       (i + 1) * RAID5BytesPerFullStripe(sz)), i),
             sz, data, i + 1, fullStripesCount)

\* handlePartialWrite step 2: the loop that overlays newPartialData on the
\* data chunks of the stripe, member by member.
RECURSIVE RAID5Overlay(_, _, _, _, _, _, _, _)
RAID5Overlay(chunks, sz, newPartialData, currentDataOffset, parityDiskIdx, d, dataChunkIdx, bytesCopiedToStripe) ==
    IF d >= RAID5Disks THEN chunks
    ELSE IF d = parityDiskIdx
    THEN RAID5Overlay(chunks, sz, newPartialData, currentDataOffset,
                      parityDiskIdx, d + 1, dataChunkIdx, bytesCopiedToStripe)
    ELSE
      LET logicalChunkStartInStripe == dataChunkIdx * sz
          inStripe == GoMod(currentDataOffset, RAID5BytesPerFullStripe(sz))
          copyStartInNewPartial ==
              IF inStripe > logicalChunkStartInStripe
              THEN inStripe - logicalChunkStartInStripe ELSE 0
          left == Len(newPartialData) - bytesCopiedToStripe
          bytesToCopy == Min(sz - copyStartInNewPartial, left)
      IN IF logicalChunkStartInStripe > Len(newPartialData)
         THEN RAID5Overlay(chunks, sz, newPartialData, currentDataOffset,
                           parityDiskIdx, d + 1, dataChunkIdx + 1,
                           bytesCopiedToStripe)
         ELSE IF bytesToCopy <= 0 THEN chunks
         ELSE RAID5Overlay(
                  [chunks EXCEPT ![d] =
                      CopyInto(@, copyStartInNewPartial, newPartialData,
                               bytesCopiedToStripe, bytesToCopy)],
                  sz, newPartialData, currentDataOffset, parityDiskIdx, d + 1,
                  dataChunkIdx + 1, bytesCopiedToStripe + bytesToCopy)

\* RAID5Controller.handlePartialWrite
RAID5HandlePartialWrite(ds0, sz, data, currentDataOffset, remainingBytes, partialStripeIdx) ==
    LET \* a new stripe: one zero chunk is appended to every member
        ds1 == IF partialStripeIdx >= Len(ds0[0])
               THEN [d \in RAID5DiskSet |-> Append(ds0[d], ZeroChunk(sz))]
               ELSE ds0
        \* 1. read the stripe; a member without the chunk counts as failed
        missing == {d \in RAID5DiskSet : ~(partialStripeIdx < Len(ds1[d]))}
        currentStripeChunks ==
            [d \in RAID5DiskSet |->
                IF d \in missing THEN ZeroChunk(sz)
                ELSE ds1[d][partialStripeIdx + 1]]
        reconstructed ==
            IF missing = {} THEN currentStripeChunks
            ELSE LET failedDiskInStripe == CHOOSE d \in missing : TRUE
                 IN [currentStripeChunks EXCEPT ![failedDiskInStripe] =
                        XorAll(currentStripeChunks,
                               RAID5DiskSet \ {failedDiskInStripe}, sz)]
        \* 2. overlay
        parityDiskIdx == GoMod(partialStripeIdx, RAID5Disks)
        newPartialData ==
            Slice(data, currentDataOffset, currentDataOffset + remainingBytes)
        modified == RAID5Overlay(reconstructed, sz, newPartialData,
                                 currentDataOffset, parityDiskIdx, 0, 0, 0)
        \* 3. parity
        newParityChunk == XorAll(modified, RAID5DiskSet \ {parityDiskIdx}, sz)
        \* 4. write back: in place if the member has the index, else append
        ds2 == [d \in RAID5DiskSet |->
                   LET c == IF d = parityDiskIdx THEN newParityChunk
                            ELSE modified[d]
                   IN IF partialStripeIdx < Len(ds1[d])
                      THEN [ds1[d] EXCEPT ![partialStripeIdx + 1] = c]
                      ELSE Append(ds1[d], c)]
    IN IF partialStripeIdx < 0
       THEN \* index out of range on r.disks[0].Data[partialStripeIdx]
            [disks |-> ds0, outcome |-> "panic"]
       ELSE IF Cardinality(missing) > 1
       THEN [disks |-> ds1, outcome |-> "error"]
       ELSE [disks |-> ds2, outcome |-> "ok"]

\* RAID5Controller.Write
RAID5Write(ds, sz, data, offset) ==
    LET bpfs == RAID5BytesPerFullStripe(sz)
        fullStripesCount == Len(data) \div bpfs
        remainingBytes == Len(data) % bpfs
        ds1 == RAID5WriteFullStripes(ds, sz, data, 0, fullStripesCount)
        currentDataOffset == fullStripesCount * bpfs
    IN IF remainingBytes > 0
       THEN RAID5HandlePartialWrite(ds1, sz, data, currentDataOffset,
                remainingBytes, GoDiv(offset, bpfs))
       ELSE [disks |-> ds1, outcome |-> "ok"]

\* max over the members S of len(disk.Data); 0 when all are empty
RECURSIVE MaxChunkCount(_, _)
MaxChunkCount(ds, S) ==
    IF S = {} THEN 0
    ELSE LET d == CHOOSE x \in S : TRUE
         IN Max(Len(ds[d]), MaxChunkCount(ds, S \ {d}))

\* append(..., chunk...) over the members listed in order
RECURSIVE ConcatChunks(_, _)
ConcatChunks(chunks, order) ==
    IF order = <<>> THEN <<>>
    ELSE chunks[Head(order)] \o ConcatChunks(chunks, Tail(order))

\* the members 0..n-1 without member p, ascending: the data members of a
\* RAID5 stripe whose parity member is p
MembersExcept(n, p) ==
    [k \in 1..(n - 1) |-> IF k - 1 < p THEN k - 1 ELSE k]

Failed == [outcome |-> "error", out |-> <<>>]

\* the stripe read with the failure test off by one (> 2 where the code has
\* > 1): every missing chunk is taken to be the XOR of the present ones
RAID5ReadStripeLax(ds, sz, currentStripeIdx) ==
    LET parityDiskIdx == currentStripeIdx % RAID5Disks
        present == {d \in RAID5DiskSet : currentStripeIdx < Len(ds[d])}
        got == [d \in RAID5DiskSet |->
                   IF d \in present THEN ds[d][currentStripeIdx + 1]
                   ELSE ZeroChunk(sz)]
        stripeChunks ==
            [d \in RAID5DiskSet |->
                IF d \in present THEN got[d] ELSE XorAll(got, present, sz)]
    IN IF Cardinality(RAID5DiskSet \ present) > 2 THEN Failed
       ELSE [outcome |-> "ok",
             out |-> ConcatChunks(stripeChunks,
                                  MembersExcept(RAID5Disks, parityDiskIdx))]

\* RAID5Controller.Read, body of the stripe loop up to the assembly of
\* currentStripeLogicalData: the logical bytes of one stripe, or an error
\* when more than one member lacks the chunk.
RAID5ReadStripe(ds, sz, currentStripeIdx) ==
    LET parityDiskIdx == currentStripeIdx % RAID5Disks
        failedDisksInStripe ==
            {d \in RAID5DiskSet : currentStripeIdx >= Len(ds[d])}
        present == RAID5DiskSet \ failedDisksInStripe
        got == [d \in RAID5DiskSet |->
                   IF d \in present THEN ds[d][currentStripeIdx + 1]
                   ELSE ZeroChunk(sz)]
        stripeChunks ==
            [d \in RAID5DiskSet |->
                IF d \in present THEN got[d] ELSE XorAll(got, present, sz)]
    IN IF Cardinality(failedDisksInStripe) > 1 THEN Failed
       ELSE [outcome |-> "ok",
             out |-> ConcatChunks(stripeChunks,
                                  MembersExcept(RAID5Disks, parityDiskIdx))]

\* RAID5Controller.Read, the stripe loop: append the wanted part of every
\* stripe startStripeIdx..endStripeIdx, return at the first error.
RECURSIVE RAID5ReadLoop(_, _, _, _, _, _, _, _)
RAID5ReadLoop(ds, sz, cur, startStripeIdx, endStripeIdx, startOff, endOff, result) ==
    IF cur > endStripeIdx THEN [outcome |-> "ok", out |-> result]
    ELSE LET s == RAID5ReadStripe(ds, sz, cur)
             startCopyOffset == IF cur = startStripeIdx THEN startOff ELSE 0
             endCopyOffset ==
                 Min(IF cur = endStripeIdx THEN endOff + 1 ELSE Len(s.out),
                     Len(s.out))
         IN IF s.outcome # "ok" THEN Failed
            ELSE RAID5ReadLoop(ds, sz, cur + 1, startStripeIdx, endStripeIdx,
                     startOff, endOff,
                     IF startCopyOffset < endCopyOffset
                     THEN result \o Slice(s.out, startCopyOffset, endCopyOffset)
                     ELSE result)

\* a Read that treats a start equal to the total data stored as an empty
\* read (the boundary rule of RAID0Controller.Read)
RAID5ReadEmptyAtEnd(ds, sz, start, length0) ==
    LET bpfs == RAID5BytesPerFullStripe(sz)
        totalDataStored == MaxChunkCount(ds, RAID5DiskSet) * bpfs
        length == IF start + length0 > totalDataStored
                  THEN totalDataStored - start ELSE length0
        r == RAID5ReadLoop(ds, sz, start \div bpfs, start \div bpfs,
                           (start + length - 1) \div bpfs, start % bpfs,
                           (start + length - 1) % bpfs, <<>>)
    IN IF start < 0 \/ length0 < 0 THEN Failed
       ELSE IF start > totalDataStored THEN Failed
       ELSE IF length <= 0 THEN [outcome |-> "ok", out |-> <<>>]
       ELSE IF r.outcome = "ok" /\ Len(r.out) > length
       THEN [outcome |-> "ok", out |-> Slice(r.out, 0, length)]
       ELSE r

\* RAID5Controller.Read
RAID5Read(ds, sz, start, length0) ==
    LET bpfs == RAID5BytesPerFullStripe(sz)
        maxWrittenLogicalStripeIdx == MaxChunkCount(ds, RAID5DiskSet) - 1
        totalDataStored == (maxWrittenLogicalStripeIdx + 1) * bpfs
        length == IF start + length0 > totalDataStored
                  THEN totalDataStored - start ELSE length0
        r == RAID5ReadLoop(ds, sz, start \div bpfs, start \div bpfs,
                           (start + length - 1) \div bpfs, start % bpfs,
                           (start + length - 1) % bpfs, <<>>)
    IN IF start < 0 \/ length0 < 0 THEN Failed
       ELSE IF maxWrittenLogicalStripeIdx = -1 THEN Failed
       ELSE IF start >= totalDataStored THEN Failed
       ELSE IF length <= 0 THEN [outcome |-> "ok", out |-> <<>>]
       ELSE IF r.outcome = "ok" /\ Len(r.out) > length
       THEN [outcome |-> "ok", out |-> Slice(r.out, 0, length)]
       ELSE r

\* a ClearDisk that drops the chunk list of every member
ClearDiskAll(ds, index) ==
    IF index < 0 \/ index >= Cardinality(DOMAIN ds)
    THEN [disks |-> ds, outcome |-> "error"]
    ELSE [disks |-> [d \in DOMAIN ds |-> <<>>], outcome |-> "ok"]

\* a ClearDisk that does not check its index
ClearDiskUnchecked(ds, index) ==
    [disks |-> [d \in DOMAIN ds |-> IF d = index THEN <<>> ELSE ds[d]],
     outcome |-> "ok"]

\* ClearDisk of RAID0, RAID1, RAID5 and RAID6: r.disks[index].Data = [][]byte{}
ClearDiskAt(ds, index) ==
    IF index < 0 \/ index >= Cardinality(DOMAIN ds)
    THEN [disks |-> ds, outcome |-> "error"]
    ELSE [disks |-> [ds EXCEPT ![index] = <<>>], outcome |-> "ok"]

\* ---------------------------------------------------------------------
\* The erasure code (klauspost/reedsolomon behind rsutil): a systematic
\* code with numParityShards = 2 in which any numDataShards shards determine
\* the stripe.  Over GF(2^3): P = sum of d_i, Q = sum of 2^i * d_i.
\* ---------------------------------------------------------------------
GfDouble(a) == IF 2 * a >= 8 THEN Xor(2 * a - 8, 3) ELSE 2 * a

RECURSIVE GfMulPow2(_, _)
GfMulPow2(a, i) == IF i = 0 THEN a ELSE GfMulPow2(GfDouble(a), i - 1)

GfMulPow2Tab == [a \in Byte |-> [i \in 0..3 |-> GfMulPow2(a, i)]]

\* the symbol of shard number i (data shards first, then P, then Q) of the
\* codeword whose data symbols are v[0..k-1]
RECURSIVE RSSum(_, _, _)
RSSum(v, k, weighted) ==
    IF k = 0 THEN 0
    ELSE XorTab[IF weighted THEN GfMulPow2Tab[v[k - 1]][k - 1] ELSE v[k - 1]]
               [RSSum(v, k - 1, weighted)]

RSSymbol(v, k, i) ==
    IF i < k THEN v[i] ELSE RSSum(v, k, i = k + 1)

\* encoder.Encode(shards): fills the two parity shards from the data shards
RSEncode(dataShards, sz, numDataShards) ==
    [i \in 0..(numDataShards + 1) |->
        IF i < numDataShards THEN dataShards[i]
        ELSE [j \in 1..sz |->
                 RSSymbol([x \in 0..(numDataShards - 1) |-> dataShards[x][j]],
                          numDataShards, i)]]

\* a missing shard is nil
Nil == <<>>

\* the data symbols of the codeword that has the symbols syms[i] at the
\* numDataShards shard numbers i in K
RSSolve(K, syms) ==
    CHOOSE v \in [0..(RAID6Disks - 3) -> Byte] :
        \A i \in K : RSSymbol(v, RAID6Disks - 2, i) = syms[i]

\* RSSolve as a table (the comparison makes TLC build the table once)
RSSolveTab ==
    LET tab == [K \in {S \in SUBSET (0..(RAID6Disks - 1)) :
                          Cardinality(S) = RAID6Disks - 2} |->
                   [syms \in [K -> Byte] |-> RSSolve(K, syms)]]
    IN IF tab = tab THEN tab ELSE tab

\* encoder.Reconstruct(shards): the stripe is solved from the first
\* numDataShards shards that are present, the missing shards are filled in
\* from it and the present ones are left as they are.
RSReconstruct(shards, sz, numDataShards) ==
    LET all == 0..(numDataShards + 1)
        present == {i \in all : shards[i] # Nil}
        firstK == {i \in present :
                      Cardinality({x \in present : x < i}) < numDataShards}
        filled == [j \in 1..sz |->
                      RSSolveTab[firstK][[i \in firstK |-> shards[i][j]]]]
    IN IF Cardinality(present) < numDataShards
       THEN [shards |-> shards, outcome |-> "error"]
       ELSE [shards |-> [i \in all |->
                            IF i \in present THEN shards[i]
                            ELSE [j \in 1..sz |->
                                     RSSymbol(filled[j], numDataShards, i)]],
             outcome |-> "ok"]

\* rsutil.EncodeStripeShards: numDataShards chunks of stripeSize bytes cut
\* from inputData (zero padded), then the parity shards
EncodeStripeShards(inputData, stripeSize, numDataShards) ==
    RSEncode([i \in 0..(numDataShards - 1) |->
                 [j \in 1..stripeSize |->
                     IF i * stripeSize + j <= Len(inputData)
                     THEN inputData[i * stripeSize + j] ELSE 0]],
             stripeSize, numDataShards)

\* the reconstruction with the tolerance test off by one (>= where the
\* code has >)
ReconstructStripeShardsStrict(shards, sz, numDataShards, numParityShards) ==
    LET missingShardCount == Cardinality({i \in DOMAIN shards : shards[i] = Nil})
    IN IF missingShardCount = 0 THEN [shards |-> shards, outcome |-> "ok"]
       ELSE IF missingShardCount >= numParityShards
       THEN [shards |-> shards, outcome |-> "error"]
       ELSE RSReconstruct(shards, sz, numDataShards)

\* rsutil.ReconstructStripeShards
ReconstructStripeShards(shards, sz, numDataShards, numParityShards) ==
    LET missingShardCount == Cardinality({i \in DOMAIN shards : shards[i] = Nil})
    IN IF missingShardCount = 0 THEN [shards |-> shards, outcome |-> "ok"]
       ELSE IF missingShardCount > numParityShards
       THEN [shards |-> shards, outcome |-> "error"]
       ELSE RSReconstruct(shards, sz, numDataShards)

\* ---------------------------------------------------------------------
\* RAID6 (raid6.go): striping with two parity chunks on the last two members
\* ---------------------------------------------------------------------
RAID6DiskSet == 0..(RAID6Disks - 1)
RAID6DataShards == RAID6Disks - 2
RAID6ParityShards == 2
RAID6BytesPerFullStripe(sz) == sz * RAID6DataShards

\* for idx >= len(disk.Data) { disk.Data = append(disk.Data, zero chunk) }
RECURSIVE ExtendTo(_, _, _)
ExtendTo(chunkList, idx, sz) ==
    IF idx >= Len(chunkList)
    THEN ExtendTo(Append(chunkList, ZeroChunk(sz)), idx, sz)
    ELSE chunkList

\* a placement with the two parity shards on the first two members
RAID6ShardOfDiskParityFirst(d) ==
    IF d = 0 THEN RAID6DataShards
    ELSE IF d = 1 THEN RAID6DataShards + 1
    ELSE d - 2

\* member d holds logical shard d (data), numDataShards (P) or
\* numDataShards+1 (Q): the placement used by Write, the RMW and Read
RAID6ShardOfDisk(d) ==
    IF d = RAID6Disks - 2 THEN RAID6DataShards
    ELSE IF d = RAID6Disks - 1 THEN RAID6DataShards + 1
    ELSE d

\* RAID6Controller.Write, body of the full-stripe loop for iteration i
RAID6WriteStripe(ds, sz, stripeData, currentAbsoluteStripeIdx) ==
    LET encodedShards == EncodeStripeShards(stripeData, sz, RAID6DataShards)
    IN [d \in RAID6DiskSet |->
           [ExtendTo(ds[d], currentAbsoluteStripeIdx, sz)
               EXCEPT ![currentAbsoluteStripeIdx + 1] =
                          encodedShards[RAID6ShardOfDisk(d)]]]

RECURSIVE RAID6WriteFullStripes(_, _, _, _, _, _)
RAID6WriteFullStripes(ds, sz, data, offset, i, fullStripesCount) ==
    IF i >= fullStripesCount THEN ds
    ELSE RAID6WriteFullStripes(
             RAID6WriteStripe(ds, sz,
                 Slice(data, i * RAID6BytesPerFullStripe(sz),
                       (i + 1) * RAID6BytesPerFullStripe(sz)),
                 GoDiv(offset, RAID6BytesPerFullStripe(sz)) + i),
             sz, data, offset, i + 1, fullStripesCount)

\* the shards of one stripe in codec order, nil where the member has no
\* chunk at the index (steps 1 and 2 of the RMW and of Read)
RAID6GatherShards(ds, stripeIdx) ==
    LET physicalShards ==
            [d \in RAID6DiskSet |->
                IF stripeIdx < Len(ds[d]) /\ Len(ds[d][stripeIdx + 1]) > 0
                THEN ds[d][stripeIdx + 1] ELSE Nil]
    IN [i \in 0..(RAID6DataShards + 1) |->
           IF i < RAID6DataShards THEN physicalShards[i]
           ELSE IF i = RAID6DataShards THEN physicalShards[RAID6Disks - 2]
           ELSE physicalShards[RAID6Disks - 1]]

\* RAID6Controller.handlePartialWrite
RAID6HandlePartialWrite(ds0, sz, data, partialDataOffsetInInput, remainingBytes, targetStripeIndex, originalWriteOffset) ==
    LET bpfs == RAID6BytesPerFullStripe(sz)
        \* every member is extended up to the target stripe
        ds1 == [d \in RAID6DiskSet |-> ExtendTo(ds0[d], targetStripeIndex, sz)]
        \* 1-3. gather and reconstruct
        rec == ReconstructStripeShards(RAID6GatherShards(ds1, targetStripeIndex),
                                       sz, RAID6DataShards, RAID6ParityShards)
        \* 4. the logical stripe, with the new bytes laid over it
        fullLogicalStripeBuffer ==
            ConcatChunks(rec.shards, [k \in 1..RAID6DataShards |-> k - 1])
        startOffsetInTargetStripe ==
            GoMod(originalWriteOffset + partialDataOffsetInInput, bpfs)
        overlaid ==
            CopyInto(fullLogicalStripeBuffer, startOffsetInTargetStripe, data,
                     partialDataOffsetInInput, remainingBytes)
        \* 5. re-encode, 6. write every shard back in place
        newShards == EncodeStripeShards(overlaid, sz, RAID6DataShards)
        ds2 == [d \in RAID6DiskSet |->
                   [ds1[d] EXCEPT ![targetStripeIndex + 1] =
                                      newShards[RAID6ShardOfDisk(d)]]]
    IN IF targetStripeIndex < 0
       THEN \* index out of range on r.disks[0].Data[targetStripeIndex]
            [disks |-> ds0, outcome |-> "panic"]
       ELSE IF rec.outcome # "ok" THEN [disks |-> ds1, outcome |-> "error"]
       ELSE IF \/ startOffsetInTargetStripe < 0
               \/ startOffsetInTargetStripe + remainingBytes > bpfs
       THEN \* slice bounds out of range on fullLogicalStripeBuffer
            [disks |-> ds1, outcome |-> "panic"]
       ELSE [disks |-> ds2, outcome |-> "ok"]

\* RAID6Controller.Write
RAID6Write(ds, sz, data, offset) ==
    LET bpfs == RAID6BytesPerFullStripe(sz)
        fullStripesCount == Len(data) \div bpfs
        remainingBytes == Len(data) % bpfs
        ds1 == RAID6WriteFullStripes(ds, sz, data, offset, 0, fullStripesCount)
        currentDataOffsetInInput == fullStripesCount * bpfs
    IN IF fullStripesCount > 0 /\ GoDiv(offset, bpfs) < 0
       THEN \* index out of range on r.disks[0].Data[currentAbsoluteStripeIdx]
            \* in the first pass of the full-stripe loop
            [disks |-> ds, outcome |-> "panic"]
       ELSE IF remainingBytes > 0
       THEN RAID6HandlePartialWrite(ds1, sz, data, currentDataOffsetInInput,
                remainingBytes,
                GoDiv(offset + fullStripesCount * bpfs, bpfs), offset)
       ELSE [disks |-> ds1, outcome |-> "ok"]

\* RAID6Controller.Read, body of the stripe loop up to the assembly of
\* currentStripeLogicalData
RAID6ReadStripe(ds, sz, currentStripeIdx) ==
    LET rec == ReconstructStripeShards(RAID6GatherShards(ds, currentStripeIdx),
                                       sz, RAID6DataShards, RAID6ParityShards)
    IN IF rec.outcome # "ok" THEN Failed
       ELSE [outcome |-> "ok",
             out |-> ConcatChunks(rec.shards,
                                  [k \in 1..RAID6DataShards |-> k - 1])]

\* RAID6Controller.Read, the stripe loop
RECURSIVE RAID6ReadLoop(_, _, _, _, _, _, _, _)
RAID6ReadLoop(ds, sz, cur, startStripeIdx, endStripeIdx, startOff, endOff, result) ==
    IF cur > endStripeIdx THEN [outcome |-> "ok", out |-> result]
    ELSE LET s == RAID6ReadStripe(ds, sz, cur)
             startCopyOffset == IF cur = startStripeIdx THEN startOff ELSE 0
             endCopyOffset ==
                 Min(IF cur = endStripeIdx THEN endOff + 1 ELSE Len(s.out),
                     Len(s.out))
         IN IF s.outcome # "ok" THEN Failed
            ELSE RAID6ReadLoop(ds, sz, cur + 1, startStripeIdx, endStripeIdx,
                     startOff, endOff,
                     IF startCopyOffset < endCopyOffset
                     THEN result \o Slice(s.out, startCopyOffset, endCopyOffset)
                     ELSE result)

\* RAID6Controller.Read
RAID6Read(ds, sz, start, length0) ==
    LET bpfs == RAID6BytesPerFullStripe(sz)
        maxWrittenLogicalStripeIdx == MaxChunkCount(ds, RAID6DiskSet) - 1
        totalDataStored == (maxWrittenLogicalStripeIdx + 1) * bpfs
        length == IF start + length0 > totalDataStored
                  THEN totalDataStored - start ELSE length0
        r == RAID6ReadLoop(ds, sz, start \div bpfs, start \div bpfs,
                           (start + length - 1) \div bpfs, start % bpfs,
                           (start + length - 1) % bpfs, <<>>)
    IN IF start < 0 \/ length0 < 0 THEN Failed
       ELSE IF maxWrittenLogicalStripeIdx = -1 THEN Failed
       ELSE IF start >= totalDataStored THEN Failed
       ELSE IF length <= 0 THEN [outcome |-> "ok", out |-> <<>>]
       ELSE IF r.outcome = "ok" /\ Len(r.out) > length
       THEN [outcome |-> "ok", out |-> Slice(r.out, 0, length)]
       ELSE r

\* ---------------------------------------------------------------------
\* RAID0 (raid0.go): striping, chunk c of the array is chunk c / n of
\* member c % n
\* ---------------------------------------------------------------------
RAID0DiskSet == 0..(RAID0Disks - 1)

\* RAID0Controller.Write, the copy loop
RECURSIVE RAID0WriteLoop(_, _, _, _, _)
RAID0WriteLoop(ds, sz, data, currentLogicalByteOffset, dataToWriteIndex) ==
    IF dataToWriteIndex >= Len(data) THEN [disks |-> ds, outcome |-> "ok"]
    ELSE
      LET currentAbsoluteStripeIdx == currentLogicalByteOffset \div sz
          diskIndex == currentAbsoluteStripeIdx % RAID0Disks
          chunkIndexInDisk == currentAbsoluteStripeIdx \div RAID0Disks
          extended == ExtendTo(ds[diskIndex], chunkIndexInDisk, sz)
          offsetInStripeChunk == currentLogicalByteOffset % sz
          bytesToCopy == Min(sz - offsetInStripeChunk,
                             Len(data) - dataToWriteIndex)
          targetChunk == extended[chunkIndexInDisk + 1]
      IN IF Len(targetChunk) # sz
         THEN [disks |-> [ds EXCEPT ![diskIndex] = extended],
               outcome |-> "error"]
         ELSE RAID0WriteLoop(
                  [ds EXCEPT ![diskIndex] =
                      [extended EXCEPT ![chunkIndexInDisk + 1] =
                          CopyInto(targetChunk, offsetInStripeChunk, data,
                                   dataToWriteIndex, bytesToCopy)]],
                  sz, data, currentLogicalByteOffset + bytesToCopy,
                  dataToWriteIndex + bytesToCopy)

\* RAID0Controller.Write
RAID0Write(ds, sz, data, offset) ==
    IF Len(data) = 0 THEN [disks |-> ds, outcome |-> "ok"]
    ELSE IF offset < 0 THEN [disks |-> ds, outcome |-> "error"]
    ELSE RAID0WriteLoop(ds, sz, data, offset, 0)

\* RAID0Controller.Read, the copy loop
RECURSIVE RAID0ReadLoop(_, _, _, _, _)
RAID0ReadLoop(ds, sz, currentLogicalReadOffset, endLogicalOffset, result) ==
    IF currentLogicalReadOffset >= endLogicalOffset
    THEN [outcome |-> "ok", out |-> result]
    ELSE
      LET currentAbsoluteStripeIdx == currentLogicalReadOffset \div sz
          diskIndex == currentAbsoluteStripeIdx % RAID0Disks
          chunkIndexInDisk == currentAbsoluteStripeIdx \div RAID0Disks
          chunk == ds[diskIndex][chunkIndexInDisk + 1]
          offsetInChunk == currentLogicalReadOffset % sz
          bytesToRead ==
              Max(0, Min(Min(sz - offsetInChunk,
                             endLogicalOffset - currentLogicalReadOffset),
                         Len(chunk) - offsetInChunk))
      IN IF chunkIndexInDisk >= Len(ds[diskIndex]) \/ Len(chunk) = 0
         THEN Failed
         ELSE RAID0ReadLoop(ds, sz, currentLogicalReadOffset + bytesToRead,
                  endLogicalOffset,
                  result \o Slice(chunk, offsetInChunk,
                                  offsetInChunk + bytesToRead))

\* RAID0Controller.Read
RAID0Read(ds, sz, start, length) ==
    LET maxDiskStripeCount == MaxChunkCount(ds, RAID0DiskSet)
        maxWrittenLogicalOffset == maxDiskStripeCount * RAID0Disks * sz
        endLogicalOffset == Min(start + length, maxWrittenLogicalOffset)
    IN IF start < 0 \/ length < 0 THEN Failed
       ELSE IF start > maxWrittenLogicalOffset THEN Failed
       ELSE IF start = maxWrittenLogicalOffset
       THEN [outcome |-> "ok", out |-> <<>>]
       ELSE IF endLogicalOffset - start <= 0
       THEN [outcome |-> "ok", out |-> <<>>]
       ELSE RAID0ReadLoop(ds, sz, start, endLogicalOffset, <<>>)

\* ---------------------------------------------------------------------
\* RAID1 (raid1.go): every member holds every chunk
\* ---------------------------------------------------------------------
RAID1DiskSet == 0..(RAID1Disks - 1)

\* RAID1Controller.Write, the copy loop
RECURSIVE RAID1WriteLoop(_, _, _, _, _)
RAID1WriteLoop(ds, sz, data, currentLogicalByteOffset, dataToWriteIndex) ==
    IF dataToWriteIndex >= Len(data) THEN [disks |-> ds, outcome |-> "ok"]
    ELSE
      LET currentAbsoluteChunkIdx == currentLogicalByteOffset \div sz
          offsetInChunk == currentLogicalByteOffset % sz
          bytesToCopy == Min(sz - offsetInChunk, Len(data) - dataToWriteIndex)
      IN RAID1WriteLoop(
             [d \in RAID1DiskSet |->
                 LET extended == ExtendTo(ds[d], currentAbsoluteChunkIdx, sz)
                 IN [extended EXCEPT ![currentAbsoluteChunkIdx + 1] =
                        CopyInto(@, offsetInChunk, data, dataToWriteIndex,
                                 bytesToCopy)]],
             sz, data, currentLogicalByteOffset + bytesToCopy,
             dataToWriteIndex + bytesToCopy)

\* RAID1Controller.Write
RAID1Write(ds, sz, data, offset) ==
    IF Len(data) = 0 THEN [disks |-> ds, outcome |-> "ok"]
    ELSE IF offset < 0 THEN [disks |-> ds, outcome |-> "error"]
    ELSE RAID1WriteLoop(ds, sz, data, offset, 0)

\* the scan that looks at the first member only and never falls back to
\* another one
FirstHealthyPrimaryOnly(ds, order, idx) ==
    IF order # <<>> /\ idx < Len(ds[Head(order)])
                    /\ Len(ds[Head(order)][idx + 1]) > 0
    THEN Head(order)
    ELSE -1

\* the first member of the sequence order that has a non-empty chunk at
\* index idx, or -1
RECURSIVE FirstHealthy(_, _, _)
FirstHealthy(ds, order, idx) ==
    IF order = <<>> THEN -1
    ELSE IF idx < Len(ds[Head(order)]) /\ Len(ds[Head(order)][idx + 1]) > 0
    THEN Head(order)
    ELSE FirstHealthy(ds, Tail(order), idx)

\* RAID1Controller.Read, the copy loop
RECURSIVE RAID1ReadLoop(_, _, _, _, _)
RAID1ReadLoop(ds, sz, currentLogicalReadOffset, endLogicalOffset, result) ==
    IF currentLogicalReadOffset >= endLogicalOffset
    THEN [outcome |-> "ok", out |-> result]
    ELSE
      LET currentAbsoluteChunkIdx == currentLogicalReadOffset \div sz
          offsetInChunk == currentLogicalReadOffset % sz
          source == FirstHealthy(ds, [k \in 1..RAID1Disks |-> k - 1],
                                 currentAbsoluteChunkIdx)
          sourceChunk == ds[source][currentAbsoluteChunkIdx + 1]
          bytesToRead ==
              Max(0, Min(Min(sz - offsetInChunk,
                             endLogicalOffset - currentLogicalReadOffset),
                         Len(sourceChunk) - offsetInChunk))
      IN IF source = -1 THEN Failed
         ELSE RAID1ReadLoop(ds, sz, currentLogicalReadOffset + bytesToRead,
                  endLogicalOffset,
                  result \o Slice(sourceChunk, offsetInChunk,
                                  offsetInChunk + bytesToRead))

\* RAID1Controller.Read
RAID1Read(ds, sz, start, length) ==
    LET maxWrittenLogicalOffset ==
            IF \A d \in RAID1DiskSet : Len(ds[d]) = 0 THEN -1
            ELSE MaxChunkCount(ds, RAID1DiskSet) * sz
        endLogicalOffset == Min(start + length, maxWrittenLogicalOffset)
    IN IF start < 0 \/ length < 0 THEN Failed
       ELSE IF start > maxWrittenLogicalOffset THEN Failed
       ELSE IF start = maxWrittenLogicalOffset
       THEN [outcome |-> "ok", out |-> <<>>]
       ELSE IF endLogicalOffset - start <= 0
       THEN [outcome |-> "ok", out |-> <<>>]
       ELSE RAID1ReadLoop(ds, sz, start, endLogicalOffset, <<>>)

\* ---------------------------------------------------------------------
\* RAID10 (raid10.go): stripes over mirror pairs; pair m holds the
\* disks with IDs 2m (primary) and 2m+1 (backup)
\* ---------------------------------------------------------------------
RAID10DiskSet == 0..(RAID10Disks - 1)

\* len(r.mirrors) as NewRAID10Controller builds it
RAID10Mirrors == RAID10Disks \div 2

\* the IDs of the two disks of r.mirrors[m], in the order of the slice
MirrorPair(m) == <<2 * m, 2 * m + 1>>

\* the extension as a single conditional append (an if where the code has
\* a loop)
RAID10GrowOnce(chunkList, primaryLen, idx, sz) ==
    IF idx >= primaryLen THEN Append(chunkList, ZeroChunk(sz)) ELSE chunkList

\* the zero chunks the extension loop of Write appends: as many as the
\* primary disk lacks, to both disks of the pair
RAID10Grow(chunkList, primaryLen, idx, sz) ==
    IF idx >= primaryLen
    THEN chunkList \o [k \in 1..(idx + 1 - primaryLen) |-> ZeroChunk(sz)]
    ELSE chunkList

\* RAID10Controller.Write, the copy loop. backupDisk.Data[chunk] is
\* indexed without a length check: the run time panics when the backup
\* holds fewer chunks than the primary
RECURSIVE RAID10WriteLoop(_, _, _, _, _)
RAID10WriteLoop(ds, sz, data, currentLogicalByteOffset, dataToWriteIndex) ==
    IF dataToWriteIndex >= Len(data) THEN [disks |-> ds, outcome |-> "ok"]
    ELSE
      LET currentAbsoluteStripeIdx == currentLogicalByteOffset \div sz
          mirrorIndex == currentAbsoluteStripeIdx % RAID10Mirrors
          chunkIndexInMirrorPair == currentAbsoluteStripeIdx \div RAID10Mirrors
          primaryDisk == MirrorPair(mirrorIndex)[1]
          backupDisk == MirrorPair(mirrorIndex)[2]
          primaryLen == Len(ds[primaryDisk])
          grown == [ds EXCEPT
              ![primaryDisk] = RAID10Grow(@, primaryLen,
                                          chunkIndexInMirrorPair, sz),
              ![backupDisk] = RAID10Grow(@, primaryLen,
                                         chunkIndexInMirrorPair, sz)]
          offsetInStripeChunk == currentLogicalByteOffset % sz
          bytesToCopy == Min(sz - offsetInStripeChunk,
                             Len(data) - dataToWriteIndex)
      IN IF chunkIndexInMirrorPair >= Len(grown[backupDisk])
         THEN [disks |-> grown, outcome |-> "panic"]
         ELSE IF \/ Len(grown[primaryDisk][chunkIndexInMirrorPair + 1]) # sz
                 \/ Len(grown[backupDisk][chunkIndexInMirrorPair + 1]) # sz
         THEN [disks |-> grown, outcome |-> "error"]
         ELSE RAID10WriteLoop(
                  [grown EXCEPT
                      ![primaryDisk][chunkIndexInMirrorPair + 1] =
                          CopyInto(@, offsetInStripeChunk, data,
                                   dataToWriteIndex, bytesToCopy),
                      ![backupDisk][chunkIndexInMirrorPair + 1] =
                          CopyInto(@, offsetInStripeChunk, data,
                                   dataToWriteIndex, bytesToCopy)],
                  sz, data, currentLogicalByteOffset + bytesToCopy,
                  dataToWriteIndex + bytesToCopy)

\* RAID10Controller.Write
RAID10Write(ds, sz, data, offset) ==
    IF Len(data) = 0 THEN [disks |-> ds, outcome |-> "ok"]
    ELSE IF offset < 0 THEN [disks |-> ds, outcome |-> "error"]
    ELSE RAID10WriteLoop(ds, sz, data, offset, 0)

\* RAID10Controller.Read, the copy loop
RECURSIVE RAID10ReadLoop(_, _, _, _, _)
RAID10ReadLoop(ds, sz, currentLogicalReadOffset, endLogicalOffset, result) ==
    IF currentLogicalReadOffset >= endLogicalOffset
    THEN [outcome |-> "ok", out |-> result]
    ELSE
      LET currentAbsoluteStripeIdx == currentLogicalReadOffset \div sz
          mirrorIndex == currentAbsoluteStripeIdx % RAID10Mirrors
          chunkIndexInMirrorPair == currentAbsoluteStripeIdx \div RAID10Mirrors
          source == FirstHealthy(ds, MirrorPair(mirrorIndex),
                                 chunkIndexInMirrorPair)
          sourceChunk == ds[source][chunkIndexInMirrorPair + 1]
          offsetInChunk == currentLogicalReadOffset % sz
          bytesToRead ==
              Max(0, Min(Min(sz - offsetInChunk,
                             endLogicalOffset - currentLogicalReadOffset),
                         Len(sourceChunk) - offsetInChunk))
      IN IF source = -1 THEN Failed
         ELSE RAID10ReadLoop(ds, sz, currentLogicalReadOffset + bytesToRead,
                  endLogicalOffset,
                  result \o Slice(sourceChunk, offsetInChunk,
                                  offsetInChunk + bytesToRead))

\* the highest logical stripe index some pair still holds, or -1
RECURSIVE RAID10MaxStripeIdx(_, _)
RAID10MaxStripeIdx(ds, mirrorIdx) ==
    IF mirrorIdx >= RAID10Mirrors THEN -1
    ELSE LET chunksInThisPair ==
                 Max(Len(ds[MirrorPair(mirrorIdx)[1]]),
                     Len(ds[MirrorPair(mirrorIdx)[2]]))
             rest == RAID10MaxStripeIdx(ds, mirrorIdx + 1)
         IN IF chunksInThisPair > 0
            THEN Max((chunksInThisPair - 1) * RAID10Mirrors + mirrorIdx, rest)
            ELSE rest

\* RAID10Controller.Read
RAID10Read(ds, sz, start, length) ==
    LET maxWrittenLogicalStripeIdx == RAID10MaxStripeIdx(ds, 0)
        maxWrittenLogicalOffset ==
            IF maxWrittenLogicalStripeIdx # -1
            THEN (maxWrittenLogicalStripeIdx + 1) * sz
            ELSE -1
        endLogicalOffset == Min(start + length, maxWrittenLogicalOffset)
    IN IF start < 0 \/ length < 0 THEN Failed
       ELSE IF start > maxWrittenLogicalOffset THEN Failed
       ELSE IF start = maxWrittenLogicalOffset
       THEN [outcome |-> "ok", out |-> <<>>]
       ELSE IF endLogicalOffset - start <= 0
       THEN [outcome |-> "ok", out |-> <<>>]
       ELSE RAID10ReadLoop(ds, sz, start, endLogicalOffset, <<>>)

\* RAID10Controller.ClearDisk: the disk is looked up by its ID
RAID10ClearDisk(ds, index) ==
    IF \E m \in 0..(RAID10Mirrors - 1), k \in 1..2 : MirrorPair(m)[k] = index
    THEN [disks |-> [ds EXCEPT ![index] = <<>>], outcome |-> "ok"]
    ELSE [disks |-> ds, outcome |-> "error"]

\* ---------------------------------------------------------------------
\* Dispatch on the level, and the three calls as actions
\* ---------------------------------------------------------------------
WriteOp(l, ds, sz, data, offset) ==
    CASE l = "raid0" -> RAID0Write(ds, sz, data, offset)
      [] l = "raid1" -> RAID1Write(ds, sz, data, offset)
      [] l = "raid10" -> RAID10Write(ds, sz, data, offset)
      [] l = "raid5" -> RAID5Write(ds, sz, data, offset)
      [] l = "raid6" -> RAID6Write(ds, sz, data, offset)

ReadOp(l, ds, sz, start, length) ==
    CASE l = "raid0" -> RAID0Read(ds, sz, start, length)
      [] l = "raid1" -> RAID1Read(ds, sz, start, length)
      [] l = "raid10" -> RAID10Read(ds, sz, start, length)
      [] l = "raid5" -> RAID5Read(ds, sz, start, length)
      [] l = "raid6" -> RAID6Read(ds, sz, start, length)

ClearOp(l, ds, index) ==
    CASE l = "raid10" -> RAID10ClearDisk(ds, index)
      [] OTHER -> ClearDiskAt(ds, index)

\* A caller issues Write(data, offset) with a non-empty data.
DoWrite ==
    /\ ~crashed
    /\ last.op = "none"
    /\ Len(writes) < MaxWrites
    /\ \E n \in 1..MaxLen, offset \in 0..MaxOff :
         LET data == Pattern(Len(writes) + 1, n)
             r == WriteOp(level, disks, stripeSz, data, offset)
         IN /\ disks' = r.disks
            /\ crashed' = (r.outcome = "panic")
            /\ writes' = Append(writes, [data |-> data, offset |-> offset,
                                         outcome |-> r.outcome])
            /\ wac' = (wac \/ cleared # {})
    /\ UNCHANGED <<loop, rsEncoded, rsShards, level, stripeSz, last, cleared>>

\* A caller issues Read(start, length); the chunk lists are only inspected.
\* A run of the model ends with the caller's Read.
DoRead ==
    /\ ~crashed
    /\ last.op = "none"
    /\ \E start \in 0..MaxOff, length \in 0..MaxLen :
         LET r == ReadOp(level, disks, stripeSz, start, length)
         IN /\ crashed' = (r.outcome = "panic")
            /\ last' = [NoCall EXCEPT !.op = "read", !.start = start,
                                       !.length = length,
                                       !.outcome = r.outcome, !.out = r.out]
    /\ UNCHANGED <<loop, rsEncoded, rsShards, level, stripeSz, disks, writes, cleared, wac>>

\* A caller issues ClearDisk(index) on a member.
DoClear ==
    /\ ~crashed
    /\ last.op = "none"
    /\ \E index \in 0..(NumDisksOf(level) - 1) :
         LET r == ClearOp(level, disks, index)
         IN /\ disks' = r.disks
            /\ cleared' = IF r.outcome = "ok" THEN cleared \cup {index}
                          ELSE cleared
    /\ UNCHANGED <<loop, rsEncoded, rsShards, level, stripeSz, crashed, last, writes, wac>>

\* A caller issues Write(data, offset) with a non-empty data and an offset
\* below zero; the call and the chunk lists it found are kept in last.
WriteNegativeOffset ==
    /\ ~crashed
    /\ last.op = "none"
    /\ \E n \in 1..MaxLen, offset \in (-MaxOff)..(-1) :
         LET data == Pattern(Len(writes) + 1, n)
             r == WriteOp(level, disks, stripeSz, data, offset)
         IN /\ disks' = r.disks
            /\ crashed' = (r.outcome = "panic")
            /\ last' = [NoCall EXCEPT !.op = "write", !.data = data,
                                       !.offset = offset,
                                       !.outcome = r.outcome,
                                       !.before = disks]
    /\ UNCHANGED <<loop, rsEncoded, rsShards, level, stripeSz, writes, cleared, wac>>

\* ClearDisk(index) as the call under observation: the index, the chunk
\* lists and the stripe size it found, and its result are kept in last.
ObserveClearDisk(index) ==
    LET r == ClearOp(level, disks, index)
    IN /\ ~crashed
       /\ last.op = "none"
       /\ disks' = r.disks
       /\ cleared' = IF r.outcome = "ok" THEN cleared \cup {index}
                     ELSE cleared
       /\ last' = [NoCall EXCEPT !.op = "clear", !.index = index,
                                  !.outcome = r.outcome, !.before = disks,
                                  !.stripeSize = stripeSz]
       /\ UNCHANGED <<loop, rsEncoded, rsShards, level, stripeSz, crashed, writes, wac>>

\* the member indices of the level (for RAID10: the disk IDs)
ValidIndex == 0..(NumDisksOf(level) - 1)

\* the nearest values on either side that name no member
InvalidIndex == {-1, NumDisksOf(level)}

ClearDiskValid == \E index \in ValidIndex : ObserveClearDisk(index)
ClearDiskInvalid == \E index \in InvalidIndex : ObserveClearDisk(index)

\* Write(data, offset) with a non-empty data and an offset of zero or more
\* as the call under observation: its arguments, the chunk lists it found
\* and its result are kept in last.
WriteObserved ==
    /\ ~crashed
    /\ last.op = "none"
    /\ \E n \in 1..MaxLen, offset \in 0..MaxOff :
         LET data == Pattern(Len(writes) + 1, n)
             r == WriteOp(level, disks, stripeSz, data, offset)
         IN /\ disks' = r.disks
            /\ crashed' = (r.outcome = "panic")
            /\ last' = [NoCall EXCEPT !.op = "write", !.data = data,
                                       !.offset = offset,
                                       !.outcome = r.outcome,
                                       !.before = disks]
    /\ UNCHANGED <<loop, rsEncoded, rsShards, level, stripeSz, writes, cleared, wac>>

WriteRAID5 == level = "raid5" /\ DoWrite
ReadRAID5 == level = "raid5" /\ DoRead
ClearRAID5 == level = "raid5" /\ DoClear

InitRAID5 == InitLevel("raid5")
NextRAID5 == WriteRAID5 \/ ReadRAID5 \/ ClearRAID5
SpecRAID5 == InitRAID5 /\ [][NextRAID5]_vars

WriteRAID6 == level = "raid6" /\ DoWrite
ReadRAID6 == level = "raid6" /\ DoRead
ClearRAID6 == level = "raid6" /\ DoClear

InitRAID6 == InitLevel("raid6")
NextRAID6 == WriteRAID6 \/ ReadRAID6 \/ ClearRAID6
SpecRAID6 == InitRAID6 /\ [][NextRAID6]_vars

WriteRAID0 == level = "raid0" /\ DoWrite
ReadRAID0 == level = "raid0" /\ DoRead
ClearRAID0 == level = "raid0" /\ DoClear

InitRAID0 == InitLevel("raid0")
NextRAID0 == WriteRAID0 \/ ReadRAID0 \/ ClearRAID0
SpecRAID0 == InitRAID0 /\ [][NextRAID0]_vars

WriteRAID1 == level = "raid1" /\ DoWrite
ReadRAID1 == level = "raid1" /\ DoRead
ClearRAID1 == level = "raid1" /\ DoClear

InitRAID1 == InitLevel("raid1")
NextRAID1 == WriteRAID1 \/ ReadRAID1 \/ ClearRAID1
SpecRAID1 == InitRAID1 /\ [][NextRAID1]_vars

WriteRAID10 == level = "raid10" /\ DoWrite
ReadRAID10 == level = "raid10" /\ DoRead
ClearRAID10 == level = "raid10" /\ DoClear

InitRAID10 == InitLevel("raid10")
NextRAID10 == WriteRAID10 \/ ReadRAID10 \/ ClearRAID10
SpecRAID10 == InitRAID10 /\ [][NextRAID10]_vars

\* the three levels without parity, each run on one controller on which no
\* failure is injected: Writes, then the caller's Read
InitStriped == InitRAID0 \/ InitRAID1 \/ InitRAID10
NextStriped ==
    \/ WriteRAID0 \/ ReadRAID0
    \/ WriteRAID1 \/ ReadRAID1
    \/ WriteRAID10 \/ ReadRAID10
SpecStriped == InitStriped /\ [][NextStriped]_vars

\* the two levels with parity, each run on one controller
InitParity == InitRAID5 \/ InitRAID6
NextParity == NextRAID5 \/ NextRAID6
SpecParity == InitParity /\ [][NextParity]_vars

Levels == {"raid0", "raid1", "raid10", "raid5", "raid6"}

\* ---------------------------------------------------------------------
\* The constructors.  A result is the new controller's member chunk lists
\* and stripeSz, or an error with a nil controller (no members).
\* ---------------------------------------------------------------------
NoController == [outcome |-> "error", disks |-> <<>>, stripeSz |-> 0]

EmptyDisks(diskCount) == [d \in 0..(diskCount - 1) |-> <<>>]

\* NewRAID0Controller: no argument is checked and no error is returned;
\* make([]*Disk, diskCount) panics on a negative diskCount
NewRAID0Controller(diskCount, stripeSize) ==
    IF diskCount < 0
    THEN [outcome |-> "panic", disks |-> <<>>, stripeSz |-> 0]
    ELSE [outcome |-> "ok", disks |-> EmptyDisks(diskCount),
          stripeSz |-> stripeSize]

NewRAID1Controller(diskCount, stripeSize) ==
    IF diskCount < 2 THEN NoController
    ELSE IF stripeSize <= 0 THEN NoController
    ELSE [outcome |-> "ok", disks |-> EmptyDisks(diskCount),
          stripeSz |-> stripeSize]

NewRAID10Controller(totalDisks, stripeSize) ==
    IF totalDisks < 4 \/ GoMod(totalDisks, 2) # 0 THEN NoController
    ELSE IF stripeSize <= 0 THEN NoController
    ELSE [outcome |-> "ok", disks |-> EmptyDisks(totalDisks),
          stripeSz |-> stripeSize]

NewRAID5Controller(diskCount, stripeSize) ==
    IF diskCount < 3 THEN NoController
    ELSE IF stripeSize <= 0 THEN NoController
    ELSE [outcome |-> "ok", disks |-> EmptyDisks(diskCount),
          stripeSz |-> stripeSize]

\* NewRAID6Controller; reedsolomon.New(diskCount - 2, 2) accepts every
\* shard count the accepted member counts give
NewRAID6Controller(diskCount, stripeSize) ==
    IF diskCount < 4 THEN NoController
    ELSE IF stripeSize <= 0 THEN NoController
    ELSE [outcome |-> "ok", disks |-> EmptyDisks(diskCount),
          stripeSz |-> stripeSize]

NewController(l, diskCount, stripeSize) ==
    CASE l = "raid0" -> NewRAID0Controller(diskCount, stripeSize)
      [] l = "raid1" -> NewRAID1Controller(diskCount, stripeSize)
      [] l = "raid10" -> NewRAID10Controller(diskCount, stripeSize)
      [] l = "raid5" -> NewRAID5Controller(diskCount, stripeSize)
      [] l = "raid6" -> NewRAID6Controller(diskCount, stripeSize)

\* before the constructor is called: a level is chosen, no controller yet
InitUnconstructed ==
    /\ level \in Levels
    /\ stripeSz = 0
    /\ disks = <<>>
    /\ crashed = FALSE
    /\ last = NoCall
    /\ writes = <<>>
    /\ cleared = {}
    /\ wac = FALSE
    /\ rsEncoded = <<>>
    /\ rsShards = <<>>
    /\ loop = NoLoop

\* A caller constructs the controller of the level with any member count
\* and stripe size.
Construct ==
    /\ ~crashed
    /\ last.op = "none"
    /\ disks = <<>>
    /\ \E diskCount \in (-1)..MaxDiskCount,
          stripeSize \in (-1)..MaxStripeSz :
         LET r == NewController(level, diskCount, stripeSize)
         IN /\ disks' = r.disks
            /\ stripeSz' = r.stripeSz
            /\ crashed' = (r.outcome = "panic")
            /\ last' = [NoCall EXCEPT !.op = "new",
                                       !.diskCount = diskCount,
                                       !.stripeSize = stripeSize,
                                       !.outcome = r.outcome]
    /\ UNCHANGED <<loop, rsEncoded, rsShards, level, writes, cleared, wac>>

SpecConstruct == InitUnconstructed /\ [][Construct]_vars

\* any of the five levels, one controller per run
InitAnyLevel == \E l \in Levels : InitLevel(l)

\* Writes at valid offsets, then one Write at a negative offset
NextNegativeOffset == DoWrite \/ WriteNegativeOffset
SpecNegativeOffset == InitAnyLevel /\ [][NextNegativeOffset]_vars

\* any level: Writes and ClearDisks, then one ClearDisk under observation
NextClearDisk == DoWrite \/ DoClear \/ ClearDiskValid \/ ClearDiskInvalid
SpecClearDisk == InitAnyLevel /\ [][NextClearDisk]_vars

\* the levels that keep redundant copies or parity
RedundantLevels == {"raid1", "raid10", "raid5", "raid6"}

InitRedundant == \E l \in RedundantLevels : InitLevel(l)

\* A redundant level run in a fixed order: one Write on the fresh
\* controller, ClearDisk of one member, further Writes, the caller's Read.
WriteFirst == writes = <<>> /\ cleared = {} /\ DoWrite
ClearOne == Len(writes) = 1 /\ cleared = {} /\ DoClear
WriteFurther == writes # <<>> /\ cleared # {} /\ DoWrite

NextHistory == WriteFirst \/ ClearOne \/ WriteFurther \/ DoRead
SpecHistory == InitRedundant /\ [][NextHistory]_vars

\* any level, no failure injected: Writes, then one Write under observation
NextWriteFrame == DoWrite \/ WriteObserved
SpecWriteFrame == InitAnyLevel /\ [][NextWriteFrame]_vars

\* RAID6: Writes and ClearDisks, then one Write under observation
WriteObservedRAID6 == level = "raid6" /\ WriteObserved
NextRAID6Write == WriteRAID6 \/ ClearRAID6 \/ WriteObservedRAID6
SpecRAID6Write == InitRAID6 /\ [][NextRAID6Write]_vars

\* ---------------------------------------------------------------------
\* rsutil on its own: a stripe is encoded with the shard counts of the
\* RAID6 controller, shards are marked absent (nil), and
\* ReconstructStripeShards is called on the array, which it fills in place.
\* ---------------------------------------------------------------------
InitShards ==
    /\ level = "raid6"
    /\ stripeSz \in 1..MaxStripeSz
    /\ disks = <<>>
    /\ crashed = FALSE
    /\ last = NoCall
    /\ writes = <<>>
    /\ cleared = {}
    /\ wac = FALSE
    /\ \E inputData \in [1..RAID6BytesPerFullStripe(stripeSz) -> Byte] :
         rsEncoded = EncodeStripeShards(inputData, stripeSz, RAID6DataShards)
    /\ rsShards = rsEncoded
    /\ loop = NoLoop

\* the caller sets rsShards[i] = nil
MarkAbsent ==
    /\ last.op = "none"
    /\ \E i \in DOMAIN rsShards :
         /\ rsShards[i] # Nil
         /\ rsShards' = [rsShards EXCEPT ![i] = Nil]
    /\ UNCHANGED <<loop, level, stripeSz, disks, crashed, last, writes, cleared, wac, rsEncoded>>

\* a call of rsutil.ReconstructStripeShards(shards, encoder, numParityShards);
\* last keeps the array the call found and its result
Reconstruct ==
    LET r == ReconstructStripeShards(rsShards, stripeSz, RAID6DataShards, RAID6ParityShards)
    IN /\ rsShards' = r.shards
       /\ last' = [NoCall EXCEPT !.op = "reconstruct", !.outcome = r.outcome,
                                  !.before = rsShards]
       /\ UNCHANGED <<loop, level, stripeSz, disks, crashed, writes, cleared, wac, rsEncoded>>

NextShards == MarkAbsent \/ Reconstruct
SpecShards == InitShards /\ [][NextShards]_vars

\* any level, no failure injected: Writes, then the caller's Read
NextIntact == DoWrite \/ DoRead
SpecIntact == InitAnyLevel /\ [][NextIntact]_vars

\* ---------------------------------------------------------------------
\* The byte-copy loops of RAID0, RAID1 and RAID10, one iteration per step.
\* The calls of one controller are issued one after the other
\* (RunRAIDSimulation), so no call starts while a loop is running.
\* ---------------------------------------------------------------------
CopyLoopLevels == {"raid0", "raid1", "raid10"}
InitCopyLoops == \E l \in CopyLoopLevels : InitLevel(l)

\* bytesToCopy that stays one byte short of the end of the chunk and of
\* the data
BytesToCopyShort(sz, offsetInChunk, remaining) ==
    Min(sz - offsetInChunk, remaining) - 1

\* bytesToCopy: up to the end of the chunk, at most the bytes left of data
BytesToCopy(sz, offsetInChunk, remaining) ==
    Min(sz - offsetInChunk, remaining)

\* bytesToRead: up to the end of the chunk, at most the bytes left of the
\* range, clipped to the bytes the chunk has and to 0
BytesToRead(sz, offsetInChunk, remaining, chunkLen) ==
    Max(0, Min(BytesToCopy(sz, offsetInChunk, remaining),
               chunkLen - offsetInChunk))

\* RAID0Controller.Write, one iteration of the copy loop; bytes is what
\* the iteration adds to currentLogicalByteOffset and dataToWriteIndex
RAID0WriteIteration(ds, sz, data, currentLogicalByteOffset, dataToWriteIndex) ==
    LET currentAbsoluteStripeIdx == currentLogicalByteOffset \div sz
        diskIndex == currentAbsoluteStripeIdx % RAID0Disks
        chunkIndexInDisk == currentAbsoluteStripeIdx \div RAID0Disks
        extended == ExtendTo(ds[diskIndex], chunkIndexInDisk, sz)
        offsetInStripeChunk == currentLogicalByteOffset % sz
        bytesToCopy == BytesToCopy(sz, offsetInStripeChunk,
                                   Len(data) - dataToWriteIndex)
        targetChunk == extended[chunkIndexInDisk + 1]
    IN IF Len(targetChunk) # sz
       THEN [disks |-> [ds EXCEPT ![diskIndex] = extended],
             outcome |-> "error", bytes |-> 0]
       ELSE [disks |-> [ds EXCEPT ![diskIndex] =
                          [extended EXCEPT ![chunkIndexInDisk + 1] =
                              CopyInto(targetChunk, offsetInStripeChunk, data,
                                       dataToWriteIndex, bytesToCopy)]],
             outcome |-> "ok", bytes |-> bytesToCopy]

\* RAID1Controller.Write, one iteration of the copy loop
RAID1WriteIteration(ds, sz, data, currentLogicalByteOffset, dataToWriteIndex) ==
    LET currentAbsoluteChunkIdx == currentLogicalByteOffset \div sz
        offsetInChunk == currentLogicalByteOffset % sz
        bytesToCopy == BytesToCopy(sz, offsetInChunk,
                                   Len(data) - dataToWriteIndex)
    IN [disks |-> [d \in RAID1DiskSet |->
                      LET extended == ExtendTo(ds[d], currentAbsoluteChunkIdx, sz)
                      IN [extended EXCEPT ![currentAbsoluteChunkIdx + 1] =
                             CopyInto(@, offsetInChunk, data, dataToWriteIndex,
                                      bytesToCopy)]],
        outcome |-> "ok", bytes |-> bytesToCopy]

\* RAID10Controller.Write, one iteration of the copy loop
RAID10WriteIteration(ds, sz, data, currentLogicalByteOffset, dataToWriteIndex) ==
    LET currentAbsoluteStripeIdx == currentLogicalByteOffset \div sz
        mirrorIndex == currentAbsoluteStripeIdx % RAID10Mirrors
        chunkIndexInMirrorPair == currentAbsoluteStripeIdx \div RAID10Mirrors
        primaryDisk == MirrorPair(mirrorIndex)[1]
        backupDisk == MirrorPair(mirrorIndex)[2]
        primaryLen == Len(ds[primaryDisk])
        grown == [ds EXCEPT
            ![primaryDisk] = RAID10Grow(@, primaryLen,
                                        chunkIndexInMirrorPair, sz),
            ![backupDisk] = RAID10Grow(@, primaryLen,
                                       chunkIndexInMirrorPair, sz)]
        offsetInStripeChunk == currentLogicalByteOffset % sz
        bytesToCopy == BytesToCopy(sz, offsetInStripeChunk,
                                   Len(data) - dataToWriteIndex)
    IN IF chunkIndexInMirrorPair >= Len(grown[backupDisk])
       THEN [disks |-> grown, outcome |-> "panic", bytes |-> 0]
       ELSE IF \/ Len(grown[primaryDisk][chunkIndexInMirrorPair + 1]) # sz
               \/ Len(grown[backupDisk][chunkIndexInMirrorPair + 1]) # sz
       THEN [disks |-> grown, outcome |-> "error", bytes |-> 0]
       ELSE [disks |-> [grown EXCEPT
                          ![primaryDisk][chunkIndexInMirrorPair + 1] =
                              CopyInto(@, offsetInStripeChunk, data,
                                       dataToWriteIndex, bytesToCopy),
                          ![backupDisk][chunkIndexInMirrorPair + 1] =
                              CopyInto(@, offsetInStripeChunk, data,
                                       dataToWriteIndex, bytesToCopy)],
             outcome |-> "ok", bytes |-> bytesToCopy]

WriteIteration(l, ds, sz, data, cur, idx) ==
    CASE l = "raid0" -> RAID0WriteIteration(ds, sz, data, cur, idx)
      [] l = "raid1" -> RAID1WriteIteration(ds, sz, data, cur, idx)
      [] l = "raid10" -> RAID10WriteIteration(ds, sz, data, cur, idx)

\* what an iteration of a Read loop yields when no chunk can be read
IterationFailed == [outcome |-> "error", out |-> <<>>, bytes |-> 0]

\* RAID0Controller.Read, one iteration of the copy loop; out is what the
\* iteration appends to result, bytes what it adds to
\* currentLogicalReadOffset
RAID0ReadIteration(ds, sz, currentLogicalReadOffset, endLogicalOffset) ==
    LET currentAbsoluteStripeIdx == currentLogicalReadOffset \div sz
        diskIndex == currentAbsoluteStripeIdx % RAID0Disks
        chunkIndexInDisk == currentAbsoluteStripeIdx \div RAID0Disks
        chunk == ds[diskIndex][chunkIndexInDisk + 1]
        offsetInChunk == currentLogicalReadOffset % sz
        bytesToRead ==
            BytesToRead(sz, offsetInChunk,
                        endLogicalOffset - currentLogicalReadOffset, Len(chunk))
    IN IF chunkIndexInDisk >= Len(ds[diskIndex]) \/ Len(chunk) = 0
       THEN IterationFailed
       ELSE [outcome |-> "ok",
             out |-> Slice(chunk, offsetInChunk, offsetInChunk + bytesToRead),
             bytes |-> bytesToRead]

\* RAID1Controller.Read, one iteration of the copy loop
RAID1ReadIteration(ds, sz, currentLogicalReadOffset, endLogicalOffset) ==
    LET currentAbsoluteChunkIdx == currentLogicalReadOffset \div sz
        offsetInChunk == currentLogicalReadOffset % sz
        source == FirstHealthy(ds, [k \in 1..RAID1Disks |-> k - 1],
                               currentAbsoluteChunkIdx)
        sourceChunk == ds[source][currentAbsoluteChunkIdx + 1]
        bytesToRead ==
            BytesToRead(sz, offsetInChunk,
                        endLogicalOffset - currentLogicalReadOffset,
                        Len(sourceChunk))
    IN IF source = -1 THEN IterationFailed
       ELSE [outcome |-> "ok",
             out |-> Slice(sourceChunk, offsetInChunk,
                           offsetInChunk + bytesToRead),
             bytes |-> bytesToRead]

\* RAID10Controller.Read, one iteration of the copy loop
RAID10ReadIteration(ds, sz, currentLogicalReadOffset, endLogicalOffset) ==
    LET currentAbsoluteStripeIdx == currentLogicalReadOffset \div sz
        mirrorIndex == currentAbsoluteStripeIdx % RAID10Mirrors
        chunkIndexInMirrorPair == currentAbsoluteStripeIdx \div RAID10Mirrors
        source == FirstHealthy(ds, MirrorPair(mirrorIndex),
                               chunkIndexInMirrorPair)
        sourceChunk == ds[source][chunkIndexInMirrorPair + 1]
        offsetInChunk == currentLogicalReadOffset % sz
        bytesToRead ==
            BytesToRead(sz, offsetInChunk,
                        endLogicalOffset - currentLogicalReadOffset,
                        Len(sourceChunk))
    IN IF source = -1 THEN IterationFailed
       ELSE [outcome |-> "ok",
             out |-> Slice(sourceChunk, offsetInChunk,
                           offsetInChunk + bytesToRead),
             bytes |-> bytesToRead]

ReadIteration(l, ds, sz, cur, end) ==
    CASE l = "raid0" -> RAID0ReadIteration(ds, sz, cur, end)
      [] l = "raid1" -> RAID1ReadIteration(ds, sz, cur, end)
      [] l = "raid10" -> RAID10ReadIteration(ds, sz, cur, end)

\* maxWrittenLogicalOffset as the prologue of Read computes it
MaxWrittenLogicalOffset(l, ds, sz) ==
    CASE l = "raid0" -> MaxChunkCount(ds, RAID0DiskSet) * RAID0Disks * sz
      [] l = "raid1" -> IF \A d \in RAID1DiskSet : Len(ds[d]) = 0 THEN -1
                        ELSE MaxChunkCount(ds, RAID1DiskSet) * sz
      [] l = "raid10" -> IF RAID10MaxStripeIdx(ds, 0) # -1
                         THEN (RAID10MaxStripeIdx(ds, 0) + 1) * sz
                         ELSE -1

\* endLogicalOffset after the truncation to maxWrittenLogicalOffset
EndLogicalOffset(l, ds, sz, start, length) ==
    Min(start + length, MaxWrittenLogicalOffset(l, ds, sz))

\* Read gets past its early returns and reaches the copy loop
ReachesCopyLoop(l, ds, sz, start, length) ==
    /\ start >= 0
    /\ length >= 0
    /\ start < MaxWrittenLogicalOffset(l, ds, sz)
    /\ EndLogicalOffset(l, ds, sz, start, length) - start > 0

\* the entry of the Write log for the call whose loop is running
LoggedWrite(outcome) ==
    [data |-> loop.data, offset |-> loop.start, outcome |-> outcome]

\* Write(data, offset) is called with non-empty data and a non-negative
\* offset: the loop starts with currentLogicalByteOffset = offset and
\* dataToWriteIndex = 0.
EnterWrite ==
    /\ ~crashed
    /\ last.op = "none"
    /\ loop.call = "none"
    /\ Len(writes) < MaxWrites
    /\ \E n \in 1..MaxLen, offset \in 0..MaxOff :
         loop' = [NoLoop EXCEPT !.call = "write",
                                !.data = Pattern(Len(writes) + 1, n),
                                !.start = offset, !.cur = offset,
                                !.before = disks]
    /\ UNCHANGED <<level, stripeSz, disks, crashed, last, writes, cleared, wac, rsEncoded, rsShards>>

\* one iteration of the copy loop of Write; an error return or a panic
\* inside the iteration ends the call
WriteIterate ==
    /\ loop.call = "write"
    /\ loop.idx < Len(loop.data)
    /\ LET r == WriteIteration(level, disks, stripeSz, loop.data, loop.cur, loop.idx)
       IN /\ disks' = r.disks
          /\ IF r.outcome = "ok"
             THEN /\ loop' = [loop EXCEPT !.cur = @ + r.bytes,
                                          !.idx = @ + r.bytes]
                  /\ UNCHANGED <<crashed, writes, wac>>
             ELSE /\ loop' = NoLoop
                  /\ crashed' = (r.outcome = "panic")
                  /\ writes' = Append(writes, LoggedWrite(r.outcome))
                  /\ wac' = (wac \/ cleared # {})
    /\ UNCHANGED <<level, stripeSz, last, cleared, rsEncoded, rsShards>>

\* the loop condition of Write fails: return nil
WriteReturn ==
    /\ loop.call = "write"
    /\ loop.idx >= Len(loop.data)
    /\ loop' = NoLoop
    /\ writes' = Append(writes, LoggedWrite("ok"))
    /\ wac' = (wac \/ cleared # {})
    /\ UNCHANGED <<level, stripeSz, disks, crashed, last, cleared, rsEncoded, rsShards>>

\* Read(start, length) is called: it returns from its prologue, or the
\* loop starts with currentLogicalReadOffset = start and an empty result.
EnterRead ==
    /\ ~crashed
    /\ last.op = "none"
    /\ loop.call = "none"
    /\ \E start \in 0..MaxOff, length \in 0..MaxLen :
         IF ReachesCopyLoop(level, disks, stripeSz, start, length)
         THEN /\ loop' = [NoLoop EXCEPT
                    !.call = "read", !.start = start, !.length = length,
                    !.cur = start,
                    !.end = EndLogicalOffset(level, disks, stripeSz, start, length)]
              /\ UNCHANGED last
         ELSE LET r == ReadOp(level, disks, stripeSz, start, length)
              IN /\ last' = [NoCall EXCEPT !.op = "read", !.start = start,
                                            !.length = length,
                                            !.outcome = r.outcome, !.out = r.out]
                 /\ UNCHANGED loop
    /\ UNCHANGED <<level, stripeSz, disks, crashed, writes, cleared, wac, rsEncoded, rsShards>>

\* one iteration of the copy loop of Read; a chunk that no member holds
\* ends the call with an error
ReadIterate ==
    /\ loop.call = "read"
    /\ loop.cur < loop.end
    /\ LET r == ReadIteration(level, disks, stripeSz, loop.cur, loop.end)
       IN IF r.outcome = "ok"
          THEN /\ loop' = [loop EXCEPT !.cur = @ + r.bytes,
                                       !.result = @ \o r.out]
               /\ UNCHANGED last
          ELSE /\ loop' = NoLoop
               /\ last' = [NoCall EXCEPT !.op = "read", !.start = loop.start,
                                          !.length = loop.length,
                                          !.outcome = "error"]
    /\ UNCHANGED <<level, stripeSz, disks, crashed, writes, cleared, wac, rsEncoded, rsShards>>

\* the loop condition of Read fails: return result, nil
ReadReturn ==
    /\ loop.call = "read"
    /\ loop.cur >= loop.end
    /\ loop' = NoLoop
    /\ last' = [NoCall EXCEPT !.op = "read", !.start = loop.start,
                               !.length = loop.length, !.out = loop.result]
    /\ UNCHANGED <<level, stripeSz, disks, crashed, writes, cleared, wac, rsEncoded, rsShards>>

\* ClearDisk(index), called between two other calls, while fewer than
\* MaxClearedDisks members have been cleared
ClearBetweenCalls == loop.call = "none" /\ Cardinality(cleared) < MaxClearedDisks /\ DoClear

NextCopyLoops == EnterWrite \/ WriteIterate \/ WriteReturn \/ EnterRead \/ ReadIterate \/ ReadReturn \/ ClearBetweenCalls
SpecCopyLoops == InitCopyLoops /\ [][NextCopyLoops]_vars

\* a call that has started keeps executing: the statements of the loop
\* that can run do run
SpecCopyLoopsFair == SpecCopyLoops /\ WF_vars(WriteIterate \/ WriteReturn \/ ReadIterate \/ ReadReturn)

\* the loop taken one iteration at a time is the call taken as one step:
\* what is left of a Write ends in the chunk lists Write(data, offset)
\* makes of the lists it found, what is left of a Read ends in the result
\* of Read(start, length)
CopyLoopIsTheCall ==
    /\ loop.call = "write" =>
         LET rest == CASE level = "raid0" -> RAID0WriteLoop(disks, stripeSz, loop.data, loop.cur, loop.idx)
                       [] level = "raid1" -> RAID1WriteLoop(disks, stripeSz, loop.data, loop.cur, loop.idx)
                       [] level = "raid10" -> RAID10WriteLoop(disks, stripeSz, loop.data, loop.cur, loop.idx)
         IN rest = WriteOp(level, loop.before, stripeSz, loop.data, loop.start)
    /\ loop.call = "read" =>
         LET rest == CASE level = "raid0" -> RAID0ReadLoop(disks, stripeSz, loop.cur, loop.end, loop.result)
                       [] level = "raid1" -> RAID1ReadLoop(disks, stripeSz, loop.cur, loop.end, loop.result)
                       [] level = "raid10" -> RAID10ReadLoop(disks, stripeSz, loop.cur, loop.end, loop.result)
         IN rest = ReadOp(level, disks, stripeSz, loop.start, loop.length)

\* ---------------------------------------------------------------------
\* Read and the chunk lists: the same Read issued twice in a row
\* ---------------------------------------------------------------------
\* a Read that extends every member that lacks chunks of the stripes it
\* read with zero-filled chunks
ChunkListsAfterRepairingRead(l, ds, sz, start, length) ==
    IF start < 0 \/ length <= 0 THEN ds
    ELSE [d \in DOMAIN ds |-> ExtendTo(ds[d], (start + length - 1) \div (sz * NumDisksOf(l)), sz)]

\* the chunk lists a Read leaves. No statement of Read assigns to a
\* member's Data or to a byte of a chunk: RAID0, RAID1 and RAID10 append
\* bytes of the chunks to result; RAID5 and RAID6 work on chunkCopy, a
\* copy of each chunk, and put what they reconstruct in the call's own
\* stripeChunks map and rsShards array
ChunkListsAfterRead(l, ds, sz, start, length) == ds

\* A caller issues Read(start, length) and then the same Read once more.
ReadTwice ==
    /\ ~crashed
    /\ last.op = "none"
    /\ \E start \in 0..MaxOff, length \in 0..MaxLen :
         LET r == ReadOp(level, disks, stripeSz, start, length)
             after == ChunkListsAfterRead(level, disks, stripeSz, start, length)
             r2 == ReadOp(level, after, stripeSz, start, length)
         IN /\ disks' = ChunkListsAfterRead(level, after, stripeSz, start, length)
            /\ last' = [NoCall EXCEPT !.op = "read", !.start = start,
                                       !.length = length,
                                       !.outcome = r.outcome, !.out = r.out,
                                       !.before = disks,
                                       !.again = [outcome |-> r2.outcome, out |-> r2.out]]
    /\ UNCHANGED <<level, stripeSz, crashed, writes, cleared, wac, rsEncoded, rsShards, loop>>

NextReadTwice == DoWrite \/ DoClear \/ ReadTwice
SpecReadTwice == InitAnyLevel /\ [][NextReadTwice]_vars

\* Writes and ClearDisks in any order, then one Write under observation,
\* at any offset
NextWriteAfterClear == DoWrite \/ DoClear \/ WriteObserved \/ WriteNegativeOffset
SpecWriteAfterClear == InitAnyLevel /\ [][NextWriteAfterClear]_vars

\* A caller issues Write(data, offset) and, when it returns, the same
\* Write once more. last.before keeps the chunk lists between the two
\* calls, last.outcome the result of the first and last.again that of the
\* second.
WriteTwice ==
    /\ ~crashed
    /\ last.op = "none"
    /\ \E n \in 1..MaxLen, offset \in 0..MaxOff :
         LET data == Pattern(Len(writes) + 1, n)
             r == WriteOp(level, disks, stripeSz, data, offset)
             r2 == WriteOp(level, r.disks, stripeSz, data, offset)
         IN IF r.outcome = "panic"
            THEN /\ disks' = r.disks
                 /\ crashed' = TRUE
                 /\ last' = [NoCall EXCEPT !.op = "write", !.data = data,
                                            !.offset = offset,
                                            !.outcome = r.outcome,
                                            !.before = disks]
            ELSE /\ disks' = r2.disks
                 /\ crashed' = (r2.outcome = "panic")
                 /\ last' = [NoCall EXCEPT !.op = "write", !.data = data,
                                            !.offset = offset,
                                            !.outcome = r.outcome,
                                            !.before = r.disks,
                                            !.again = [outcome |-> r2.outcome, out |-> <<>>]]
    /\ UNCHANGED <<level, stripeSz, writes, cleared, wac, rsEncoded, rsShards, loop>>

NextWriteTwice == DoWrite \/ WriteTwice
SpecWriteTwice == InitAnyLevel /\ [][NextWriteTwice]_vars

\* ---------------------------------------------------------------------
\* What the calls issued so far should have stored
\* ---------------------------------------------------------------------
LastWrite == writes[Len(writes)]

\* every Write issued so far returned nil
WritesSucceeded == \A k \in 1..Len(writes) : writes[k].outcome = "ok"

\* the caller's Read asked for exactly the range of the latest Write
ReadBackOfLastWrite ==
    /\ last.op = "read"
    /\ writes # <<>>
    /\ last.start = LastWrite.offset
    /\ last.length = Len(LastWrite.data)

\* some Write of the log covers the byte at logical offset o
Written(o) ==
    \E k \in 1..Len(writes) :
        o >= writes[k].offset /\ o < writes[k].offset + Len(writes[k].data)

\* the byte the first k Writes of the log leave at logical offset o: the
\* byte of the latest of them that covers o, 0 where none does
RECURSIVE ExpectedByte(_, _)
ExpectedByte(k, o) ==
    IF k = 0 THEN 0
    ELSE IF o >= writes[k].offset /\ o < writes[k].offset + Len(writes[k].data)
    THEN writes[k].data[o - writes[k].offset + 1]
    ELSE ExpectedByte(k - 1, o)

\* the bytes the Writes of the log leave in [start, start + length)
Expected(start, length) ==
    [j \in 1..length |-> ExpectedByte(Len(writes), start + j - 1)]

\* the caller's Read asked for a non-empty range every byte of which some
\* Write covered
ReadOfWrittenRange ==
    /\ last.op = "read"
    /\ last.length >= 1
    /\ \A o \in last.start..(last.start + last.length - 1) : Written(o)

\* C1: RAID5 round trip.  With ClearDisk never called, every Write returns
\* without error and a Read of the written range right after it returns
\* exactly the written bytes.
RoundTripRAID5 ==
    (level = "raid5" /\ cleared = {}) =>
        /\ WritesSucceeded
        /\ ReadBackOfLastWrite =>
               (last.outcome = "ok" /\ last.out = LastWrite.data)

\* C2: RAID6 round trip.  With ClearDisk never called, every Write returns
\* without error (and without a run-time panic), whatever its offset and
\* length, and a Read of the written range right after it returns exactly
\* the written bytes.
RoundTripRAID6 ==
    (level = "raid6" /\ cleared = {}) =>
        /\ WritesSucceeded
        /\ ReadBackOfLastWrite =>
               (last.outcome = "ok" /\ last.out = LastWrite.data)

WroteOnceAtZero == Len(writes) = 1 /\ writes[1].offset = 0 /\ ~wac

\* the caller's Read asked for exactly the range of the first Write
ReadBackOfFirstWrite ==
    /\ last.op = "read"
    /\ writes # <<>>
    /\ last.start = writes[1].offset
    /\ last.length = Len(writes[1].data)

\* the logical offsets the caller's Read asked for
BytesOfRead == last.start..(last.start + last.length - 1)

\* the chunk (stripe unit) indices the caller's Read asked for; a Read of
\* no bytes is counted with the chunk its start lies in
ChunksOfRead ==
    (last.start \div stripeSz)..
        ((last.start + Max(last.length, 1) - 1) \div stripeSz)

\* C4: RAID5 single-failure recovery.  After one Write at offset 0 of a
\* fresh RAID5 controller and ClearDisk of one member, the Write has
\* returned nil and Read(0, len(data)) returns the written bytes.
RAID5SingleFailureRecovery ==
    (/\ level = "raid5"
     /\ WroteOnceAtZero
     /\ Cardinality(cleared) = 1
     /\ ReadBackOfFirstWrite) =>
        (WritesSucceeded /\ last.outcome = "ok" /\ last.out = writes[1].data)

\* C5: RAID6 double-failure recovery.  After one Write at offset 0 of a
\* fresh RAID6 controller and ClearDisk of one or two members, the Write has
\* returned nil and Read(0, len(data)) returns the written bytes.
RAID6DoubleFailureRecovery ==
    (/\ level = "raid6"
     /\ WroteOnceAtZero
     /\ Cardinality(cleared) \in {1, 2}
     /\ ReadBackOfFirstWrite) =>
        (WritesSucceeded /\ last.outcome = "ok" /\ last.out = writes[1].data)

\* a full stripe and a partial one were read back with both data members
\* cleared
RAID6DoubleFailureSeen ==
    /\ level = "raid6"
    /\ stripeSz = 1
    /\ WroteOnceAtZero
    /\ Len(writes[1].data) = 3
    /\ cleared = {0, 1}
    /\ ReadBackOfFirstWrite
    /\ last.outcome = "ok"
    /\ last.out = writes[1].data

\* no RAID1 member holds chunk c
RAID1ChunkLost(c) == \A d \in RAID1DiskSet : c >= Len(disks[d])

\* C6: RAID1 mirror recovery.  With Writes, then ClearDisk of a proper
\* subset of the members, a Read of a written range returns the bytes
\* written there; and whenever a Read returns an error, some chunk of its
\* range is held by no member.
RAID1MirrorRecovery ==
    level = "raid1" =>
        /\ (~wac /\ cleared # RAID1DiskSet /\ ReadOfWrittenRange) =>
               /\ last.outcome = "ok"
               /\ last.out = Expected(last.start, last.length)
        /\ (last.op = "read" /\ last.outcome = "error") =>
               \E c \in ChunksOfRead : RAID1ChunkLost(c)

\* two Writes were read back from the second member after the first was
\* cleared
RAID1MirrorRecoverySeen ==
    /\ level = "raid1"
    /\ Len(writes) = 2
    /\ ~wac
    /\ cleared = {0}
    /\ ReadOfWrittenRange
    /\ last.length = 3
    /\ last.outcome = "ok"
    /\ last.out = Expected(last.start, last.length)

\* neither member of its mirror pair holds the chunk of logical stripe s
RAID10StripeLost(s) ==
    \A k \in 1..2 :
        (s \div RAID10Mirrors) >= Len(disks[MirrorPair(s % RAID10Mirrors)[k]])

\* C7: RAID10 mirror-pair recovery.  With Writes, then ClearDisk of any
\* members, a Read of a written range returns the bytes written there when
\* every stripe of the range is still held by a member of its pair, and it
\* returns an error exactly when some stripe of the range is held by
\* neither member of its pair.
RAID10MirrorPairRecovery ==
    (level = "raid10" /\ ~wac /\ ReadOfWrittenRange) =>
        /\ (\A s \in ChunksOfRead : ~RAID10StripeLost(s)) =>
               /\ last.outcome = "ok"
               /\ last.out = Expected(last.start, last.length)
        /\ (last.outcome = "error") <=>
               (\E s \in ChunksOfRead : RAID10StripeLost(s))

\* C8: failure threshold.  After one Write at offset 0 of a fresh
\* controller and ClearDisk of two members (RAID5) or three members
\* (RAID6), Read(0, len(data)) returns an error and no bytes.
FailureThreshold ==
    (/\ level \in {"raid5", "raid6"}
     /\ WroteOnceAtZero
     /\ Cardinality(cleared) = (IF level = "raid5" THEN 2 ELSE 3)
     /\ ReadBackOfFirstWrite) =>
        (last.outcome = "error" /\ last.out = <<>>)

\* a RAID6 Read failed with three members cleared
FailureThresholdSeen ==
    /\ level = "raid6"
    /\ WroteOnceAtZero
    /\ Len(writes[1].data) = 3
    /\ cleared = {0, 2, 3}
    /\ ReadBackOfFirstWrite
    /\ last.outcome = "error"
    /\ last.out = <<>>

\* stripeSz * numDataShards of the controller
BytesPerFullStripe ==
    IF level = "raid5" THEN RAID5BytesPerFullStripe(stripeSz)
    ELSE RAID6BytesPerFullStripe(stripeSz)

\* N bytes written at offset 0, then fewer than a full stripe of bytes
\* written over them at an offset that is no multiple of the full stripe
PartialOverwrite ==
    /\ Len(writes) = 2
    /\ ~wac
    /\ writes[1].offset = 0
    /\ writes[2].offset % BytesPerFullStripe # 0
    /\ Len(writes[2].data) < BytesPerFullStripe
    /\ writes[2].offset + Len(writes[2].data) <= Len(writes[1].data)

\* C9: partial-write (RMW) correctness for RAID5 and RAID6.  After N bytes
\* at offset 0 and a partial overwrite inside them, both Writes have
\* returned nil and Read(0, N) returns the first bytes with the overwritten
\* ones replaced, with no member or with one member cleared afterwards.
PartialWriteRMW ==
    (/\ level \in {"raid5", "raid6"}
     /\ PartialOverwrite
     /\ Cardinality(cleared) <= 1
     /\ ReadBackOfFirstWrite) =>
        /\ WritesSucceeded
        /\ last.outcome = "ok"
        /\ last.out = Expected(0, Len(writes[1].data))

\* the byte at logical offset o is stored on a cleared RAID0 member
RAID0OnClearedMember(o) == ((o \div stripeSz) % RAID0Disks) \in cleared

\* C10: RAID0 zero tolerance.  With Writes, then ClearDisk of one member,
\* a Read of a written range returns an error when a byte of the range is
\* stored on the cleared member, and returns the bytes written there when
\* none is.
RAID0ZeroTolerance ==
    (/\ level = "raid0"
     /\ ~wac
     /\ Cardinality(cleared) = 1
     /\ ReadOfWrittenRange) =>
        IF \E o \in BytesOfRead : RAID0OnClearedMember(o)
        THEN last.outcome = "error"
        ELSE /\ last.outcome = "ok"
             /\ last.out = Expected(last.start, last.length)

\* C11: on every level, a Write of non-empty data at an offset below zero
\* returns an error and leaves every member's chunk list as it found it.
NegativeOffsetRejected ==
    (last.op = "write" /\ last.offset < 0 /\ last.data # <<>>)
        => (last.outcome = "error" /\ disks = last.before)

\* one past the highest logical offset any Write of the log covers
WrittenEnd ==
    LET ends == {writes[k].offset + Len(writes[k].data) : k \in 1..Len(writes)}
    IN IF ends = {} THEN 0 ELSE CHOOSE e \in ends : \A f \in ends : f <= e

\* the caller's Read starts at a written byte, asks for more than is
\* written, and every byte from its start to the end of the data is written
OverLongRead ==
    /\ last.op = "read"
    /\ cleared = {}
    /\ WritesSucceeded
    /\ last.start + last.length > WrittenEnd
    /\ \A o \in last.start..(WrittenEnd - 1) : Written(o)
    /\ last.start < WrittenEnd

\* C12: on every level with no member cleared, a Read that starts inside
\* the written data and asks for more than is written returns no error and
\* exactly the written bytes from its start to the end of the data.
OverLongReadTruncated ==
    OverLongRead
        => /\ last.outcome = "ok"
           /\ last.out = Expected(last.start, WrittenEnd - last.start)

\* totalDataStored of RAID5Controller.Read and RAID6Controller.Read: the
\* deepest chunk list times the bytes of a full stripe
TotalDataStored ==
    MaxChunkCount(disks, 0..(NumDisksOf(level) - 1)) * BytesPerFullStripe

\* C13: on RAID5 and RAID6, in every reachable state, a Read on a
\* controller no Write was ever issued to, and a Read whose start is at or
\* beyond the total data stored, return an error and no data.
OutOfDataReadFails ==
    (/\ last.op = "read"
     /\ level \in {"raid5", "raid6"}
     /\ (writes = <<>> \/ last.start >= TotalDataStored))
        => (last.outcome = "error" /\ last.out = <<>>)

\* data is stored, and the Read started exactly at its end
OutOfDataReadSeen ==
    /\ last.op = "read"
    /\ level \in {"raid5", "raid6"}
    /\ writes # <<>>
    /\ TotalDataStored > 0
    /\ last.start = TotalDataStored
    /\ last.length > 0
    /\ last.outcome = "error"

\* the constructor was handed a stripe size or a member count that the
\* level does not admit
BadConstruction ==
    /\ last.op = "new"
    /\ \/ last.stripeSize <= 0
       \/ level = "raid5" /\ last.diskCount < 3
       \/ level = "raid6" /\ last.diskCount < 4
       \/ level = "raid10" /\ (last.diskCount < 4 \/ last.diskCount % 2 # 0)

\* C14: on each of the five levels, construction with a stripe size of
\* zero or less, or with fewer members than the level needs (RAID5: 3,
\* RAID6: 4, RAID10: 4 and even), yields an error and no controller.
ConstructionValidated ==
    BadConstruction => (last.outcome = "error" /\ disks = <<>>)

\* C15: on every level and in every reachable state, ClearDisk(i) with a
\* valid index returns nil, empties member i's chunk list, and leaves every
\* other member's chunk list and the stripe size as they were.
ClearDiskFrame ==
    (last.op = "clear" /\ last.index \in ValidIndex)
        => /\ last.outcome = "ok"
           /\ disks[last.index] = <<>>
           /\ \A d \in ValidIndex \ {last.index} : disks[d] = last.before[d]
           /\ DOMAIN disks = DOMAIN last.before
           /\ stripeSz = last.stripeSize

\* the cleared member and some other member both held chunks
ClearDiskFrameSeen ==
    /\ last.op = "clear"
    /\ last.index \in ValidIndex
    /\ last.outcome = "ok"
    /\ last.before[last.index] # <<>>
    /\ \E d \in ValidIndex \ {last.index} : disks[d] # <<>>

\* C16: ClearDisk(index) with an index below zero or not below the member
\* count (RAID10: an index that is no member's disk ID) returns an error
\* and leaves every chunk list as it was.
ClearDiskInvalidRejected ==
    (last.op = "clear" /\ last.index \notin ValidIndex)
        => (last.outcome = "error" /\ disks = last.before)

\* an invalid index was given while members held chunks
ClearDiskInvalidSeen ==
    /\ last.op = "clear"
    /\ last.index \notin ValidIndex
    /\ last.outcome = "error"
    /\ \E d \in ValidIndex : last.before[d] # <<>>

\* the byte ranges of two Writes of the log do not meet
Disjoint(j, k) ==
    \/ writes[j].offset + Len(writes[j].data) <= writes[k].offset
    \/ writes[k].offset + Len(writes[k].data) <= writes[j].offset

\* In a run of SpecHistory: data D was written, one member was cleared,
\* Writes to ranges disjoint from D followed and returned nil, and the
\* caller's Read asks for D's range.
ReadOfClearedHistory ==
    /\ last.op = "read"
    /\ Len(writes) >= 2
    /\ Cardinality(cleared) = 1
    /\ WritesSucceeded
    /\ \A k \in 2..Len(writes) : Disjoint(1, k)
    /\ last.start = writes[1].offset
    /\ last.length = Len(writes[1].data)

\* C17: on RAID1, RAID10, RAID5 and RAID6, after data D is written, one
\* member is cleared and further Writes go to ranges disjoint from D, a
\* Read of D's range returns nil error and D: the later Writes leave no
\* zero-filled chunk on the cleared member that Read takes for D's data.
HistoryStaysGone ==
    ReadOfClearedHistory
        => (last.outcome = "ok" /\ last.out = writes[1].data)

\* In a run of SpecHistory on RAID5 or RAID6: the first Write filled
\* stripe 0, one member was cleared, the second Write replaced a part of
\* stripe 0, both returned nil, and the caller's Read asks for stripe 0.
ReadOfStripeAfterDegradedRMW ==
    /\ level \in {"raid5", "raid6"}
    /\ last.op = "read"
    /\ Len(writes) = 2
    /\ Cardinality(cleared) = 1
    /\ WritesSucceeded
    /\ writes[1].offset = 0
    /\ Len(writes[1].data) = BytesPerFullStripe
    /\ Len(writes[2].data) < BytesPerFullStripe
    /\ writes[2].offset + Len(writes[2].data) <= BytesPerFullStripe
    /\ last.start = 0
    /\ last.length = BytesPerFullStripe

\* C18: on RAID5 and RAID6, a partial-stripe Write into a stripe of which
\* one member's chunk is absent (the member was cleared after the stripe
\* was written) rebuilds the absent shard first: a Read of the whole stripe
\* then returns the stripe's previous bytes with only the overwritten
\* range changed.
RMWReconstructsBeforeOverlay ==
    ReadOfStripeAfterDegradedRMW
        => (last.outcome = "ok" /\ last.out = Expected(0, BytesPerFullStripe))

\* RAID10: member d holds byte b at logical offset o (chunk o / stripeSz
\* is chunk (o / stripeSz) / mirrors of pair (o / stripeSz) % mirrors)
RAID10Holds(d, o, b) ==
    LET chunkIndexInMirrorPair == (o \div stripeSz) \div RAID10Mirrors
    IN /\ chunkIndexInMirrorPair < Len(disks[d])
       /\ disks[d][chunkIndexInMirrorPair + 1][(o % stripeSz) + 1] = b

\* In a run of SpecHistory on RAID10: one member was cleared after the
\* first Write, and a second Write followed.
RAID10WroteAfterClear ==
    /\ level = "raid10"
    /\ Len(writes) = 2
    /\ Cardinality(cleared) = 1

\* C19: on RAID10, after ClearDisk of either member of a mirror pair, a
\* Write at an offset of zero or more returns nil, also where it touches
\* chunk indices the surviving member holds, and afterwards both members
\* of every touched pair hold the written bytes at the touched chunks.
RAID10Repopulation ==
    RAID10WroteAfterClear
        => /\ LastWrite.outcome = "ok"
           /\ \A j \in 1..Len(LastWrite.data) :
                 LET o == LastWrite.offset + j - 1
                     pair == MirrorPair((o \div stripeSz) % RAID10Mirrors)
                 IN /\ RAID10Holds(pair[1], o, LastWrite.data[j])
                    /\ RAID10Holds(pair[2], o, LastWrite.data[j])

\* C20: on every level, in every state reached by Writes and ClearDisks,
\* every Write at an offset of zero or more and every ClearDisk returns a
\* result or an error value: no call ends in a runtime panic.
NoRuntimeFault == ~crashed

\* the observed Write covers the byte at logical offset o
InObservedRange(o) ==
    o >= last.offset /\ o < last.offset + Len(last.data)

\* a Write under observation returned nil on a controller with no member
\* cleared, after earlier Writes that all returned nil
ObservedWriteOnIntact ==
    /\ last.op = "write"
    /\ last.offset >= 0
    /\ last.outcome = "ok"
    /\ cleared = {}
    /\ writes # <<>>
    /\ WritesSucceeded

\* C21: on every level with no member cleared, a Write changes the logical
\* contents only inside [offset, offset+len(data)): every byte an earlier
\* Write stored outside that range reads back as it did before the call;
\* and a Write to a range that earlier Writes already cover is made in
\* place, no member's chunk list growing.
WriteFrame ==
    ObservedWriteOnIntact
        => /\ \A o \in 0..(MaxOff + MaxLen - 1) :
                 (Written(o) /\ ~InObservedRange(o))
                     => ReadOp(level, disks, stripeSz, o, 1)
                            = ReadOp(level, last.before, stripeSz, o, 1)
           /\ (\A o \in last.offset..(last.offset + Len(last.data) - 1) :
                   Written(o))
                 => \A d \in ValidIndex : Len(disks[d]) = Len(last.before[d])

\* every member holds a chunk at stripe index s
StripeComplete(s) == \A d \in ValidIndex : s < Len(disks[d])

\* RAID5: the chunk on the parity member of stripe s (member s mod
\* members, as Read takes it) is the XOR of the other members' chunks
RAID5ParityHolds(s) ==
    LET parityDiskIdx == s % RAID5Disks
        chunks == [d \in RAID5DiskSet |-> disks[d][s + 1]]
    IN disks[parityDiskIdx][s + 1]
           = XorAll(chunks, RAID5DiskSet \ {parityDiskIdx}, stripeSz)

\* RAID6: the chunks on the last two members are the two parity shards the
\* encoder computes from the chunks on the data members
RAID6ParityHolds(s) ==
    LET encoded == RSEncode([i \in 0..(RAID6DataShards - 1) |-> disks[i][s + 1]],
                            stripeSz, RAID6DataShards)
    IN \A d \in RAID6DiskSet : disks[d][s + 1] = encoded[RAID6ShardOfDisk(d)]

\* C22: on RAID5 and RAID6, in every state reached by Writes that returned
\* nil and ClearDisks, at every stripe index at which every member holds a
\* chunk the parity chunks are the parity of that stripe's data chunks.
ParityConsistent ==
    (level \in {"raid5", "raid6"} /\ WritesSucceeded)
        => \A s \in 0..(MaxChunkCount(disks, ValidIndex) - 1) :
               StripeComplete(s)
                   => IF level = "raid5" THEN RAID5ParityHolds(s)
                      ELSE RAID6ParityHolds(s)

\* the observed RAID5 Write returned nil and carried whole stripes only,
\* at an offset that is a multiple of the full stripe
RAID5WroteFullStripes ==
    /\ level = "raid5"
    /\ last.op = "write"
    /\ last.outcome = "ok"
    /\ last.offset >= 0
    /\ last.offset % BytesPerFullStripe = 0
    /\ Len(last.data) % BytesPerFullStripe = 0

\* the chunk member d holds for a stripe of absolute index s made of the
\* bytes stripeData: the parity on member s mod members, the data chunks
\* on the other members in member order
RAID5PlacedChunk(d, s, stripeData) ==
    LET parityDiskIdx == s % RAID5Disks
        dataChunk(x) ==
            LET j == IF x < parityDiskIdx THEN x ELSE x - 1
            IN Slice(stripeData, j * stripeSz, (j + 1) * stripeSz)
    IN IF d = parityDiskIdx
       THEN XorAll([x \in RAID5DiskSet |-> IF x = parityDiskIdx THEN ZeroChunk(stripeSz) ELSE dataChunk(x)], RAID5DiskSet \ {parityDiskIdx}, stripeSz)
       ELSE dataChunk(d)

\* C23: a RAID5 Write of k full stripes at a stripe-aligned offset o stores
\* stripe i of its data at chunk index s = o / bytesPerFullStripe + i of
\* every member, parity on member s mod members and the data chunks on the
\* other members in member order.
RAID5LayoutByStripeIndex ==
    RAID5WroteFullStripes
        => \A i \in 0..((Len(last.data) \div BytesPerFullStripe) - 1) :
               LET s == (last.offset \div BytesPerFullStripe) + i
                   stripeData == Slice(last.data, i * BytesPerFullStripe, (i + 1) * BytesPerFullStripe)
               IN \A d \in RAID5DiskSet :
                      /\ s < Len(disks[d])
                      /\ disks[d][s + 1] = RAID5PlacedChunk(d, s, stripeData)

\* the observed RAID5 or RAID6 Write returned nil and carried at least one
\* full stripe followed by left-over bytes
WroteStripesAndTail ==
    /\ level \in {"raid5", "raid6"}
    /\ last.op = "write"
    /\ last.outcome = "ok"
    /\ last.offset >= 0
    /\ Len(last.data) \div BytesPerFullStripe >= 1
    /\ Len(last.data) % BytesPerFullStripe > 0

\* C24: when one RAID5 or RAID6 Write carries k >= 1 full stripes and then
\* left-over bytes, the left-over bytes are stored from the first data byte
\* of stripe offset / bytesPerFullStripe + k, and the k stripes of the call
\* are left as written: Read returns the left-over bytes from the start of
\* that stripe and the k stripes from the start of the first one.
PartialTailPlaced ==
    WroteStripesAndTail
        => LET fullBytes == (Len(last.data) \div BytesPerFullStripe) * BytesPerFullStripe
               first == (last.offset \div BytesPerFullStripe) * BytesPerFullStripe
               remainingBytes == Len(last.data) - fullBytes
           IN /\ ReadOp(level, disks, stripeSz, first + fullBytes, remainingBytes)
                    = [outcome |-> "ok", out |-> Slice(last.data, fullBytes, Len(last.data))]
              /\ ReadOp(level, disks, stripeSz, first, fullBytes)
                    = [outcome |-> "ok", out |-> Slice(last.data, 0, fullBytes)]

\* C25: on RAID1, in every state reached by Writes and ClearDisks, two
\* members that both hold a chunk at one chunk index hold the same bytes
\* there.
RAID1MirrorsAgree ==
    level = "raid1"
        => \A a, b \in RAID1DiskSet :
               \A c \in 1..Min(Len(disks[a]), Len(disks[b])) :
                   disks[a][c] = disks[b][c]

\* the observed RAID6 Write returned nil
RAID6Wrote ==
    /\ level = "raid6"
    /\ last.op = "write"
    /\ last.offset >= 0
    /\ last.outcome = "ok"

\* the data members' chunks of stripe s, in member order
RAID6DataOfStripe(s) ==
    ConcatChunks([d \in 0..(RAID6DataShards - 1) |-> disks[d][s + 1]],
                 [k \in 1..RAID6DataShards |-> k - 1])

\* stripe s: every member holds a chunk, members members-2 and members-1
\* hold the first and the second parity shard of the chunks on members
\* 0..members-3, and Read returns the data members' chunks in member order
RAID6PlacedAt(s) ==
    LET encoded == RSEncode([i \in 0..(RAID6DataShards - 1) |-> disks[i][s + 1]],
                            stripeSz, RAID6DataShards)
    IN /\ StripeComplete(s)
       /\ disks[RAID6Disks - 2][s + 1] = encoded[RAID6DataShards]
       /\ disks[RAID6Disks - 1][s + 1] = encoded[RAID6DataShards + 1]
       /\ ReadOp(level, disks, stripeSz, s * BytesPerFullStripe, BytesPerFullStripe)
             = [outcome |-> "ok", out |-> RAID6DataOfStripe(s)]

\* C26: after every RAID6 Write that returns nil, at every stripe index it
\* wrote, data shard j is on member j, the first parity shard on member
\* members-2 and the second on member members-1, whatever the stripe
\* index, and Read maps members to shards the same way: a full stripe's
\* bytes lie on the data members in member order, the left-over bytes lie
\* in the data members' chunks of their stripe, and both parities match.
RAID6FixedParityPlacement ==
    RAID6Wrote
        => LET fullStripesCount == Len(last.data) \div BytesPerFullStripe
               remainingBytes == Len(last.data) % BytesPerFullStripe
               base == last.offset \div BytesPerFullStripe
               target == (last.offset + fullStripesCount * BytesPerFullStripe) \div BytesPerFullStripe
               startOffsetInTargetStripe == (last.offset + fullStripesCount * BytesPerFullStripe) % BytesPerFullStripe
           IN /\ \A i \in 0..(fullStripesCount - 1) :
                    /\ RAID6PlacedAt(base + i)
                    /\ RAID6DataOfStripe(base + i)
                          = Slice(last.data, i * BytesPerFullStripe, (i + 1) * BytesPerFullStripe)
              /\ remainingBytes > 0
                    => /\ RAID6PlacedAt(target)
                       /\ Slice(RAID6DataOfStripe(target), startOffsetInTargetStripe, startOffsetInTargetStripe + remainingBytes)
                             = Slice(last.data, fullStripesCount * BytesPerFullStripe, Len(last.data))

\* a Write of a full stripe and left-over bytes, issued after a ClearDisk,
\* returned nil
RAID6FixedParityPlacementSeen ==
    /\ RAID6Wrote
    /\ cleared # {}
    /\ Len(last.data) > BytesPerFullStripe
    /\ \E d \in RAID6DiskSet : last.before[d] # <<>>

\* the number of shards that were absent when Reconstruct was called
AbsentBefore == Cardinality({i \in DOMAIN last.before : last.before[i] = Nil})

\* C27: for the shards of an encoded stripe of which any m are marked
\* absent, Reconstruct restores every absent shard to its original bytes
\* and leaves the present ones as they are when m <= numParityShards
\* (changing nothing when m = 0), and returns an error when
\* m > numParityShards, also when every shard is absent.
ReconstructContract ==
    last.op = "reconstruct"
        => IF AbsentBefore <= RAID6ParityShards
           THEN /\ last.outcome = "ok"
                /\ rsShards = rsEncoded
                /\ AbsentBefore = 0 => rsShards = last.before
           ELSE last.outcome = "error"

\* two shards, a data shard among them, were absent and have been restored
ReconstructContractSeen ==
    /\ last.op = "reconstruct"
    /\ AbsentBefore = RAID6ParityShards
    /\ last.before[0] = Nil
    /\ last.outcome = "ok"
    /\ rsShards = rsEncoded

\* C28: on every level, in every state reached by Writes and ClearDisks,
\* every chunk in every member's chunk list has exactly stripeSz bytes.
ChunkSizeInvariant ==
    \A d \in DOMAIN disks :
        \A c \in 1..Len(disks[d]) : Len(disks[d][c]) = stripeSz

\* members hold chunks written before and after a ClearDisk
ChunkSizeInvariantSeen ==
    /\ wac
    /\ Len(writes) = MaxWrites
    /\ WritesSucceeded
    /\ \A d \in DOMAIN disks : Len(disks[d]) >= 2

\* the bytes the next iteration of the running copy loop adds to the
\* logical offset, when the iteration completes
NextAdvance ==
    IF loop.call = "write"
    THEN WriteIteration(level, disks, stripeSz, loop.data, loop.cur, loop.idx)
    ELSE ReadIteration(level, disks, stripeSz, loop.cur, loop.end)

\* a copy loop is about to run an iteration
CopyLoopRunning ==
    \/ loop.call = "write" /\ loop.idx < Len(loop.data)
    \/ loop.call = "read" /\ loop.cur < loop.end

\* C29: every iteration of the byte-copy loops of RAID0, RAID1 and RAID10
\* Write and Read that completes advances the logical offset by at least
\* one byte, and every Write and Read that has entered its loop returns.
CopyLoopsTerminate ==
    /\ [](CopyLoopRunning /\ NextAdvance.outcome = "ok" => NextAdvance.bytes >= 1)
    /\ (loop.call # "none") ~> (loop.call = "none")

\* a Read issued after a ClearDisk and the Writes has returned more than
\* one chunk's worth of bytes, gathered in two iterations or more
CopyLoopsTerminateSeen ==
    /\ loop.call = "none"
    /\ cleared # {}
    /\ Len(writes) = MaxWrites
    /\ last.op = "read"
    /\ last.outcome = "ok"
    /\ Len(last.out) > stripeSz

\* some Write of the log covers the logical offset o
CoveredByWrite(o) ==
    \E k \in 1..Len(writes) :
        o >= writes[k].offset /\ o < writes[k].offset + Len(writes[k].data)

\* C30: on every level, after any sequence of successful Writes and
\* ClearDisks, a Read that returns without error returns, at every offset
\* of its result that some Write has covered, the byte most recently
\* written at that offset.
NoSilentCorruption ==
    (last.op = "read" /\ last.outcome = "ok" /\ WritesSucceeded) =>
        \A j \in 1..Len(last.out) :
            CoveredByWrite(last.start + j - 1) =>
                last.out[j] = ExpectedByte(Len(writes), last.start + j - 1)

FailedWriteIsAtomic ==
    (last.op = "write" /\ last.outcome = "error") => disks = last.before

\* the chunk index on member d that holds the byte at logical offset o,
\* or -1 when d holds no chunk of the stripe of o: the chunk with the
\* byte on RAID0, RAID1 and RAID10, the stripe of the byte on RAID5 and
\* RAID6, where every member holds one chunk of each stripe
ChunkIndexOn(d, o) ==
    CASE level = "raid0" ->
           IF (o \div stripeSz) % RAID0Disks = d
           THEN (o \div stripeSz) \div RAID0Disks ELSE -1
      [] level = "raid1" -> o \div stripeSz
      [] level = "raid10" ->
           IF (o \div stripeSz) % RAID10Mirrors = d \div 2
           THEN (o \div stripeSz) \div RAID10Mirrors ELSE -1
      [] level = "raid5" -> o \div RAID5BytesPerFullStripe(stripeSz)
      [] level = "raid6" -> o \div RAID6BytesPerFullStripe(stripeSz)

\* the highest chunk index the observed Write's range occupies on member
\* d, or -1
HighestChunkIndexOn(d) ==
    LET S == {ChunkIndexOn(d, o) : o \in last.offset..(last.offset + Len(last.data) - 1)}
    IN CHOOSE i \in S : \A j \in S : j <= i

\* C33: on every level, after a Write(data, offset) with offset >= 0
\* that returns nil no member holds more chunks than the larger of its
\* count before the call and the highest chunk index the write's range
\* occupies on it plus one.
ChunkListsGrowAsFarAsWritten ==
    (last.op = "write" /\ last.outcome = "ok" /\ last.offset >= 0) =>
        \A d \in DOMAIN disks :
            Len(disks[d]) <= Max(Len(last.before[d]), HighestChunkIndexOn(d) + 1)

\* C34: on every level with no member cleared, the same Write(data, offset)
\* issued a second time right after the first returned nil leaves every
\* member's chunk list, counts and contents, as the first call left it.
WriteIsIdempotent ==
    (last.op = "write" /\ last.again # NotRepeated /\ last.outcome = "ok" /\ cleared = {}) =>
        disks = last.before

\* C35: on every level with no member cleared, a Read(start, length) that
\* returns nil returns at most W - start bytes, W being the largest
\* offset + len(data) over the Writes issued so far: the zero bytes that
\* fill a chunk beyond W are not returned.
NoPaddingExposed ==
    (last.op = "read" /\ last.outcome = "ok" /\ cleared = {} /\ WritesSucceeded) =>
        Len(last.out) <= Max(0, WrittenEnd - last.start)

====
